---------------------------- MODULE Spec2Model ----------------------------
(***************************************************************************)
(* SecureWipe: device classification (secure_wipe/core.py, pyscript.py)    *)
(* and the wipe session of the graphical front end (secure_wipe/gui.py).   *)
(*                                                                         *)
(* Python values are tagged records: [t |-> "none"] is None,               *)
(* [t |-> "str", s |-> <<chars>>] a str, [t |-> "bool", b |-> ...] a bool. *)
(* A str is the sequence of its characters, so that lower(), startswith()  *)
(* and f-string substitution are computed and not assumed.                 *)
(***************************************************************************)
EXTENDS Integers, Sequences, FiniteSets, TLC

\* ------------------------------------------------------------------------
\* Python values
\* ------------------------------------------------------------------------
PyNone == [t |-> "none"]
PyStr(chars) == [t |-> "str", s |-> chars]
PyBool(b) == [t |-> "bool", b |-> b]

\* bool(v): None and "" and False are falsy, every other value is truthy
\* (a non-empty str such as "0" is truthy).
Truthy(v) ==
    CASE v.t = "none" -> FALSE
      [] v.t = "bool" -> v.b
      [] v.t = "str" -> Len(v.s) > 0

\* dict.get(key, default): the stored value when the key is present (also
\* when that value is None), the default only when the key is absent.
DictGet(d, key, default) == IF key \in DOMAIN d THEN d[key] ELSE default

\* str.lower() on one character (the letters the inventories use).
LowerChar(c) ==
    CASE c = "U" -> "u" [] c = "S" -> "s" [] c = "B" -> "b"
      [] c = "N" -> "n" [] c = "V" -> "v" [] c = "M" -> "m"
      [] c = "E" -> "e" [] c = "A" -> "a" [] c = "T" -> "t"
      [] OTHER -> c

StrLower(chars) == [i \in 1..Len(chars) |-> LowerChar(chars[i])]

\* str.startswith(prefix)
StartsWith(chars, prefix) ==
    /\ Len(chars) >= Len(prefix)
    /\ SubSeq(chars, 1, Len(prefix)) = prefix

StartsWithAny(chars, prefixes) == \E p \in prefixes : StartsWith(chars, p)

\* The literals of the source.
S_usb == <<"u", "s", "b">>
S_nvme == <<"n", "v", "m", "e">>
S_disk == <<"d", "i", "s", "k">>
S_dev == <<"/", "d", "e", "v", "/">>
S_NA == <<"N", "/", "A">>
S_Unknown == <<"U", "n", "k", "n", "o", "w", "n">>
ignore_prefixes == { <<"l", "o", "o", "p">>, <<"z", "r", "a", "m">>, <<"d", "m", "-">> }

\* ------------------------------------------------------------------------
\* Results of a call: a value or a raised exception
\* ------------------------------------------------------------------------
Raised(exc) == [raised |-> TRUE, exc |-> exc]
Returned(v) == [raised |-> FALSE, val |-> v]

\* ------------------------------------------------------------------------
\* The output of SecureWipeCore._run_command(["smartctl", "-i", path]),
\* by the substrings the classifiers look for.
\*   startsError: the text starts with "Error" (non-zero exit or tool missing)
\*   hasError:    the text contains "Error" somewhere
\*   hasUnavail:  the text contains "Unavailable"
\*   hasSSD:      the text contains "Solid State Device"
\* ------------------------------------------------------------------------
SmartOut(se, he, hu, hs) ==
    [startsError |-> se, hasError |-> he, hasUnavail |-> hu, hasSSD |-> hs]

SmartOutputs ==
    { SmartOut(TRUE, TRUE, FALSE, FALSE),     \* query failed
      SmartOut(FALSE, FALSE, FALSE, TRUE),    \* SSD marker
      SmartOut(FALSE, FALSE, FALSE, FALSE),   \* no marker
      SmartOut(FALSE, FALSE, TRUE, FALSE),    \* "Unavailable" marker
      SmartOut(FALSE, FALSE, TRUE, TRUE) }    \* "Unavailable" and SSD marker

\* ------------------------------------------------------------------------
\* Command strings: the tokens before the substituted device path, the path
\* (empty when the template has no substitution) and the tokens after it.
\* ------------------------------------------------------------------------
Cmd(pre, path, post) == [pre |-> pre, path |-> path, post |-> post]

\* A string the shell would run as a command: its first token is a program.
\* "#" starts a comment; "HALT:" and "(Alternative:" are prose.
IsExecutable(cmd) == Len(cmd.pre) > 0 /\ cmd.pre[1] = "sudo"

\* DeviceType of core.py, by its value.
DeviceTypes == {"HDD", "SATA SSD", "NVME", "USB", "UNKNOWN"}

\* The commands dictionary of SecureWipeCore._get_wipe_commands.
core_commands(device_path) ==
    [dt \in DeviceTypes |->
       CASE dt = "HDD" ->
              << Cmd(<<"sudo", "nwipe", "--method", "dodshort">>, device_path, <<>>) >>
         [] dt = "SATA SSD" ->
              << Cmd(<<"sudo", "hdparm", "--user-master", "u", "--security-set-pass", "p">>, device_path, <<>>),
                 Cmd(<<"sudo", "hdparm", "--user-master", "u", "--security-erase", "p">>, device_path, <<>>) >>
         [] dt = "NVME" ->
              << Cmd(<<"sudo", "nvme", "format">>, device_path, <<"--ses=1">>) >>
         [] dt = "USB" ->
              << Cmd(<<"sudo", "dd", "if=/dev/zero", "of=">>, device_path, <<"bs=1M", "status=progress">>),
                 Cmd(<<"#", "Alternative:", "sudo", "shred", "-vfz", "-n", "1">>, device_path, <<>>) >>
         [] OTHER ->
              << Cmd(<<"#", "STOP:", "Cannot recommend commands for unknown device type">>, <<>>, <<>>),
                 Cmd(<<"#", "Manual verification required before any wipe operation">>, <<>>, <<>>) >> ]

\* Mutant: a value the dictionary does not hold falls back to the USB entry.
get_wipe_commands_usb_default(device_type, device_path) ==
    IF device_type \in DOMAIN core_commands(device_path)
    THEN core_commands(device_path)[device_type]
    ELSE core_commands(device_path)["USB"]

\* SecureWipeCore._get_wipe_commands: commands.get(device_type, commands[UNKNOWN])
get_wipe_commands(device_type, device_path) ==
    IF device_type \in DOMAIN core_commands(device_path)
    THEN core_commands(device_path)[device_type]
    ELSE core_commands(device_path)["UNKNOWN"]

\* The commands dictionary of DeviceClassifier.get_wipe_command.
pyscript_commands(device_path) ==
    [c \in DeviceTypes |->
       CASE c = "HDD" ->
              << Cmd(<<"sudo", "nwipe", "--method", "dodshort">>, device_path, <<>>) >>
         [] c = "SATA SSD" ->
              << Cmd(<<"sudo", "hdparm", "--user-master", "u", "--security-set-pass", "p">>, device_path, <<>>),
                 Cmd(<<"sudo", "hdparm", "--user-master", "u", "--security-erase", "p">>, device_path, <<>>) >>
         [] c = "NVME" ->
              << Cmd(<<"sudo", "nvme", "format">>, device_path, <<"--ses=1">>) >>
         [] c = "USB" ->
              << Cmd(<<"sudo", "dd", "if=/dev/zero", "of=">>, device_path, <<"bs=1M", "status=progress">>),
                 Cmd(<<"(Alternative:", "sudo", "shred", "-vfz", "-n", "1">>, device_path, <<")">>) >>
         [] OTHER ->
              << Cmd(<<"HALT:", "Cannot recommend a safe command for an unknown device.">>, <<>>, <<>>) >> ]

\* DeviceClassifier.get_wipe_command: commands.get(classification, commands["UNKNOWN"])
get_wipe_command(classification, device_path) ==
    IF classification \in DOMAIN pyscript_commands(device_path)
    THEN pyscript_commands(device_path)[classification]
    ELSE pyscript_commands(device_path)["UNKNOWN"]

\* ------------------------------------------------------------------------
\* Classification (core.py)
\* ------------------------------------------------------------------------
\* An evidence entry: the fixed text and the value formatted into it.
Ev(text, chars) == [text |-> text, arg |-> chars]

\* str(v) as an f-string formats it.
FormatValue(v) ==
    CASE v.t = "str" -> v.s
      [] v.t = "none" -> <<"N", "o", "n", "e">>
      [] v.t = "bool" -> IF v.b THEN <<"T", "r", "u", "e">> ELSE <<"F", "a", "l", "s", "e">>

\* What _determine_type and classify return: the classification, the
\* evidence list after the call, and whether the identity query was issued.
Verdict(type, evidence, queried) ==
    Returned([type |-> type, evidence |-> evidence, queried |-> queried])

\* Mutant: the NVMe name test comes before the USB transport test.
determine_type_nvme_first(device, evidence, device_path, smartctl_output) ==
    LET name == DictGet(device, "name", PyStr(<<>>))
        tran == DictGet(device, "tran", PyStr(<<>>))
    IN  IF tran.t # "str" \/ name.t # "str" THEN Raised("AttributeError")
        ELSE IF StartsWith(name.s, S_nvme)
        THEN Verdict("NVME", Append(evidence, Ev("Detected: NVMe device name", <<>>)), FALSE)
        ELSE IF StrLower(tran.s) = S_usb
        THEN Verdict("USB", Append(evidence, Ev("Detected: USB transport", <<>>)), FALSE)
        ELSE Verdict("UNKNOWN", Append(evidence, Ev("Classification: Unable to determine type", <<>>)), FALSE)

\* SecureWipeCore._determine_type. smartctl_output is what the identity
\* query returns when it is issued.
determine_type(device, evidence, device_path, smartctl_output) ==
    LET name == DictGet(device, "name", PyStr(<<>>))
        tran == DictGet(device, "tran", PyStr(<<>>))
        is_rotational == DictGet(device, "rota", PyBool(FALSE))
    IN  \* device.get("tran", "").lower(): None has no lower()
        IF tran.t # "str" THEN Raised("AttributeError")
        ELSE IF StrLower(tran.s) = S_usb
        THEN Verdict("USB", Append(evidence, Ev("Detected: USB transport", <<>>)), FALSE)
        ELSE IF name.t # "str" THEN Raised("AttributeError")
        ELSE IF StartsWith(name.s, S_nvme)
        THEN Verdict("NVME", Append(evidence, Ev("Detected: NVMe device name", <<>>)), FALSE)
        ELSE IF DictGet(device, "type", PyNone) = PyStr(S_disk)
        THEN IF smartctl_output.startsError
             THEN Verdict("UNKNOWN", Append(evidence, Ev("SMART: Data unavailable", <<>>)), TRUE)
             ELSE IF smartctl_output.hasSSD
             THEN Verdict("SATA SSD", Append(evidence, Ev("SMART: Confirmed SSD", <<>>)), TRUE)
             ELSE IF Truthy(is_rotational)
             THEN Verdict("HDD", Append(evidence, Ev("SMART: Confirmed rotational disk", <<>>)), TRUE)
             ELSE Verdict("UNKNOWN", Append(evidence, Ev("SMART: Non-rotational but not confirmed SSD", <<>>)), TRUE)
        ELSE Verdict("UNKNOWN", Append(evidence, Ev("Classification: Unable to determine type", <<>>)), FALSE)

\* SecureWipeCore._classify_device
classify_device(raw_device, smartctl_output) ==
    LET name == DictGet(raw_device, "name", PyStr(<<>>))
        tran == DictGet(raw_device, "tran", PyStr(<<>>))
        is_rotational == DictGet(raw_device, "rota", PyBool(FALSE))
    IN  \* raw_device.get("tran", "").lower()
        IF tran.t # "str" THEN Raised("AttributeError")
        ELSE
        LET transport == StrLower(tran.s)
            device_path == S_dev \o FormatValue(name)
            evidence ==
               << Ev("Transport: ", IF Len(transport) > 0 THEN transport ELSE S_NA),
                  Ev("Rotational: ", IF Truthy(is_rotational) THEN <<"Y", "e", "s">> ELSE <<"N", "o">>),
                  Ev("Type: ", FormatValue(DictGet(raw_device, "type", PyStr(S_NA)))) >>
            r == determine_type(raw_device, evidence, device_path, smartctl_output)
        IN  IF r.raised THEN r
            ELSE Returned(
                   [name |-> FormatValue(name), path |-> device_path,
                    model |-> DictGet(raw_device, "model", PyStr(S_Unknown)),
                    size |-> DictGet(raw_device, "size", PyStr(S_Unknown)),
                    transport |-> IF Len(transport) > 0 THEN transport ELSE S_Unknown,
                    is_rotational |-> is_rotational,
                    classification |-> r.val.type,
                    queried |-> r.val.queried,
                    evidence |-> r.val.evidence,
                    wipe_commands |-> get_wipe_commands(r.val.type, device_path)])

\* ------------------------------------------------------------------------
\* Classification (pyscript.py)
\* ------------------------------------------------------------------------
\* DeviceClassifier.classify
classify(device, smartctl_output) ==
    LET name == DictGet(device, "name", PyNone)
        tran == DictGet(device, "tran", PyStr(<<>>))
        is_rotational == DictGet(device, "rota", PyBool(FALSE))
    IN  IF tran.t # "str" THEN Raised("AttributeError")
        ELSE
        LET transport == StrLower(tran.s)
            evidence ==
               << Ev("[lsblk] Transport Type: ", IF Len(transport) > 0 THEN transport ELSE S_NA),
                  Ev("[lsblk] Is Rotational: ", FormatValue(is_rotational)) >>
        IN  IF transport = S_usb THEN Verdict("USB", evidence, FALSE)
            ELSE IF name.t # "str" THEN Raised("AttributeError")
            ELSE IF StartsWith(name.s, S_nvme) THEN Verdict("NVME", evidence, FALSE)
            ELSE IF DictGet(device, "type", PyNone) = PyStr(S_disk)
            THEN IF smartctl_output.hasError \/ smartctl_output.hasUnavail
                 THEN Verdict("UNKNOWN",
                        Append(evidence, Ev("[smartctl] Result: Could not get reliable SMART data.", <<>>)), TRUE)
                 ELSE IF smartctl_output.hasSSD
                 THEN Verdict("SATA SSD",
                        Append(evidence, Ev("[smartctl] Result: Confirmed as Solid State Device.", <<>>)), TRUE)
                 ELSE IF Truthy(is_rotational)
                 THEN Verdict("HDD",
                        Append(evidence, Ev("[smartctl] Result: Confirmed as a Rotational Device.", <<>>)), TRUE)
                 ELSE Verdict("UNKNOWN",
                        Append(evidence, Ev("[smartctl] Result: CONFLICT! Non-rotational but not confirmed as SSD.", <<>>)), TRUE)
            ELSE Verdict("UNKNOWN", evidence, FALSE)

\* ------------------------------------------------------------------------
\* Inputs of the classifiers: records of the lsblk --json inventory
\* ------------------------------------------------------------------------
\* A field the record does not hold.
Absent == [t |-> "absent"]

\* The record with the fields that are present.
RawDevice(name, tran, rota, type) ==
    LET all == [name |-> name, tran |-> tran, rota |-> rota, type |-> type]
    IN  [k \in {f \in DOMAIN all : all[f].t # "absent"} |-> all[k]]

\* A record of the inventory by its name, transport, type and rotational flag.
InRecord(name, tran, type, rota) == RawDevice(PyStr(name), tran, rota, type)

\* Every spelling of "usb" in upper and lower case letters.
UsbSpellings ==
    { <<a, b, c>> : a \in {"u", "U"}, b \in {"s", "S"}, c \in {"b", "B"} }

InNames ==
    { <<"s", "d", "a">>, <<"n", "v", "m", "e", "0", "n", "1">>,
      <<"n", "v", "m">>, <<"l", "o", "o", "p", "0">> }

\* lsblk prints null for a value it does not have; older versions leave
\* the column out or print flags as the strings "0" and "1".
InTrans ==
    { PyStr(s) : s \in UsbSpellings \cup { <<"s", "a", "t", "a">>, S_nvme, <<>> } }
      \cup { PyNone, Absent }

InRota == { PyBool(TRUE), PyBool(FALSE), PyStr(<<"0">>), Absent }

InTypes == { PyStr(S_disk), PyStr(<<"r", "o", "m">>), Absent }

\* Classification values handed to the command selector: the five of
\* DeviceType and two it does not know.
SelTypes == DeviceTypes \cup {"RAID", "usb"}

VARIABLES
    raw,        \* the raw device record under classification
    smart,      \* what the identity query answers for it
    cpc,        \* position of the classification run
    core_out,   \* result of SecureWipeCore._classify_device
    py_out,     \* result of DeviceClassifier.classify
    sel_type,   \* classification handed to the command selectors
    sel_core,   \* result of SecureWipeCore._get_wipe_commands
    sel_py      \* result of DeviceClassifier.get_wipe_command

clVars == <<raw, smart, cpc, core_out, py_out, sel_type, sel_core, sel_py>>

NoResult == [raised |-> FALSE, pending |-> TRUE]

ClassifyIdle ==
    /\ raw = RawDevice(PyStr(<<"s", "d", "a">>), Absent, Absent, Absent)
    /\ smart = SmartOut(FALSE, FALSE, FALSE, FALSE)
    /\ cpc = "off"
    /\ core_out = NoResult
    /\ py_out = NoResult
    /\ sel_type = "UNKNOWN"
    /\ sel_core = <<>>
    /\ sel_py = <<>>

ClassifyInit ==
    /\ raw \in { RawDevice(PyStr(n), tr, ro, ty) :
                   n \in InNames, tr \in InTrans, ro \in InRota, ty \in InTypes }
    /\ smart \in SmartOutputs
    /\ cpc = "core"
    /\ core_out = NoResult
    /\ py_out = NoResult
    /\ sel_type = "UNKNOWN"
    /\ sel_core = <<>>
    /\ sel_py = <<>>

\* core.py: scan_devices classifies one record.
ClassifyCore ==
    /\ cpc = "core"
    /\ core_out' = classify_device(raw, smart)
    /\ cpc' = "py"
    /\ UNCHANGED <<raw, smart, py_out, sel_type, sel_core, sel_py>>

\* pyscript.py: main classifies one record.
ClassifyPy ==
    /\ cpc = "py"
    /\ py_out' = classify(raw, smart)
    /\ cpc' = "sel"
    /\ UNCHANGED <<raw, smart, core_out, sel_type, sel_core, sel_py>>

\* The command selectors applied to a classification and the device path.
SelectCommands ==
    /\ cpc = "sel"
    /\ \E ty \in SelTypes :
         /\ sel_type' = ty
         /\ sel_core' = get_wipe_commands(ty, S_dev \o raw["name"].s)
         /\ sel_py' = get_wipe_command(ty, S_dev \o raw["name"].s)
    /\ cpc' = "done"
    /\ UNCHANGED <<raw, smart, core_out, py_out>>

ClassifyNext == ClassifyCore \/ ClassifyPy \/ SelectCommands

\* ------------------------------------------------------------------------
\* Device scan (core.py)
\* ------------------------------------------------------------------------
\* What lsblk answers: lsblk is "error" (non-zero exit or missing tool),
\* "badjson" (output that is not JSON), "nokey" (JSON without
\* "blockdevices") or "ok" with the records devs; each record comes with
\* the answer the identity query would give for it.
Inventory(lsblk, devs) == [lsblk |-> lsblk, devs |-> devs]
Probe(rawdev, smartctl_output) == [raw |-> rawdev, smart |-> smartctl_output]

RECURSIVE ClassifyAll(_)
\* The loop of scan_devices over physical_devices: the classified devices,
\* or the exception the first failing classification raises.
ClassifyAll(probes) ==
    IF probes = <<>> THEN Returned(<<>>)
    ELSE LET first == classify_device(Head(probes).raw, Head(probes).smart)
         IN  IF first.raised THEN first
             ELSE LET rest == ClassifyAll(Tail(probes))
                  IN  IF rest.raised THEN rest
                      ELSE Returned(<<first.val>> \o rest.val)

\* dev.get("name", "").startswith(self.ignore_prefixes)
IsVirtual(rawdev) == StartsWithAny(DictGet(rawdev, "name", PyStr(<<>>)).s, ignore_prefixes)

\* Mutant: the classifications of one core object share one evidence list,
\* so a device's evidence starts with what the cached devices left in it.
scan_devices_shared_evidence(inv, cache) ==
    IF inv.lsblk = "error"
    THEN Returned([success |-> FALSE, message |-> "Failed to get device list", devices |-> <<>>, cache |-> cache])
    ELSE IF inv.lsblk \in {"badjson", "nokey"}
    THEN Returned([success |-> FALSE, message |-> "Failed to parse device data", devices |-> <<>>, cache |-> cache])
    ELSE LET physical_devices == SelectSeq(inv.devs, LAMBDA pr : ~IsVirtual(pr.raw))
             classified == ClassifyAll(physical_devices)
             left == IF cache = <<>> THEN <<>> ELSE cache[Len(cache)].evidence
             shared == [i \in 1..Len(classified.val) |->
                          [classified.val[i] EXCEPT !.evidence = left \o @]]
         IN  IF classified.raised THEN classified
             ELSE Returned([success |-> TRUE, message |-> "Found devices",
                            devices |-> shared, cache |-> shared])

\* Mutant: a scan adds what it found to the cache.
scan_devices_merge(inv, cache) ==
    IF inv.lsblk = "error"
    THEN Returned([success |-> FALSE, message |-> "Failed to get device list", devices |-> <<>>, cache |-> cache])
    ELSE IF inv.lsblk \in {"badjson", "nokey"}
    THEN Returned([success |-> FALSE, message |-> "Failed to parse device data", devices |-> <<>>, cache |-> cache])
    ELSE LET physical_devices == SelectSeq(inv.devs, LAMBDA pr : ~IsVirtual(pr.raw))
             classified == ClassifyAll(physical_devices)
         IN  IF classified.raised THEN classified
             ELSE Returned([success |-> TRUE, message |-> "Found devices",
                            devices |-> classified.val, cache |-> cache \o classified.val])

\* SecureWipeCore.scan_devices: (success, message, devices) and the cache
\* after the call, or the exception that leaves the call.
scan_devices(inv, cache) ==
    IF inv.lsblk = "error"
    THEN Returned([success |-> FALSE, message |-> "Failed to get device list", devices |-> <<>>, cache |-> cache])
    ELSE IF inv.lsblk \in {"badjson", "nokey"}
    THEN Returned([success |-> FALSE, message |-> "Failed to parse device data", devices |-> <<>>, cache |-> cache])
    ELSE LET physical_devices == SelectSeq(inv.devs, LAMBDA pr : ~IsVirtual(pr.raw))
             classified == ClassifyAll(physical_devices)
         IN  IF classified.raised THEN classified
             ELSE Returned([success |-> TRUE, message |-> "Found devices",
                            devices |-> classified.val, cache |-> classified.val])

\* ------------------------------------------------------------------------
\* The programming interface (core.py): SecureWipeAPI over one SecureWipeCore
\* ------------------------------------------------------------------------
\* Calls made on one SecureWipeAPI object in one run of the model.
MaxApiCalls == 3

\* SecureWipeAPI._device_to_dict
device_to_dict(device) ==
    [name |-> device.name, path |-> device.path, model |-> device.model,
     size |-> device.size, transport |-> device.transport,
     is_rotational |-> device.is_rotational, classification |-> device.classification,
     evidence |-> device.evidence, wipe_commands |-> device.wipe_commands]

\* SecureWipeAPI.scan on the result of core.scan_devices(): the dictionary
\* it returns, or the exception that passes through it.
api_scan(r) ==
    IF r.raised THEN r
    ELSE Returned([success |-> r.val.success, message |-> r.val.message,
                   count |-> Len(r.val.devices),
                   devices |-> [i \in 1..Len(r.val.devices) |-> device_to_dict(r.val.devices[i])]])

\* SecureWipeCore.get_device_by_path: the first cached device with the
\* path, or None.
get_device_by_path(cache, device_path) ==
    LET hits == { i \in 1..Len(cache) : cache[i].path = device_path }
    IN  IF hits = {} THEN PyNone
        ELSE cache[CHOOSE i \in hits : \A j \in hits : i <= j]

\* SecureWipeAPI.get_device
get_device(cache, device_path) ==
    LET device == get_device_by_path(cache, device_path)
    IN  IF device = PyNone THEN PyNone ELSE device_to_dict(device)

\* The records and identity-query answers the interface is called on: a
\* SATA disk answering as a rotational disk and as a solid state device, a
\* USB stick, an NVMe drive whose transport lsblk prints as null, and a
\* record with nothing but its name.
ApiProbes ==
    { Probe(InRecord(<<"s", "d", "a">>, PyStr(<<"s", "a", "t", "a">>), PyStr(S_disk), PyBool(TRUE)),
            SmartOut(FALSE, FALSE, FALSE, FALSE)),
      Probe(InRecord(<<"s", "d", "a">>, PyStr(<<"s", "a", "t", "a">>), PyStr(S_disk), PyBool(FALSE)),
            SmartOut(FALSE, FALSE, FALSE, TRUE)),
      Probe(InRecord(<<"s", "d", "b">>, PyStr(S_usb), PyStr(S_disk), PyBool(FALSE)),
            SmartOut(FALSE, FALSE, FALSE, FALSE)),
      Probe(InRecord(<<"n", "v", "m", "e", "0", "n", "1">>, PyNone, PyStr(S_disk), PyBool(FALSE)),
            SmartOut(FALSE, FALSE, FALSE, FALSE)),
      Probe(InRecord(<<"s", "d", "c">>, Absent, Absent, Absent),
            SmartOut(TRUE, TRUE, FALSE, FALSE)) }

\* What lsblk answers to one scan.
ApiInventories ==
    { Inventory(k, <<>>) : k \in {"error", "badjson", "nokey", "ok"} }
      \cup { Inventory("ok", <<p>>) : p \in ApiProbes }
      \cup { Inventory("ok", pq) : pq \in { <<p, q>> \in ApiProbes \X ApiProbes : p # q } }

\* The paths get_device is asked for.
ApiPaths == { S_dev \o n : n \in { <<"s", "d", "a">>, <<"s", "d", "b">>, <<"s", "d", "z">> } }

NoInventory == Inventory("none", <<>>)

VARIABLES
    core_devices_cache, \* core._devices_cache
    scan_inv,           \* what lsblk answered to the latest scan()
    scan_ret,           \* what the latest scan() returned or raised
    prev_inv,           \* the same for the scan() before it
    prev_ret,
    last_good,          \* the device list of the latest scan_devices() that succeeded
    get_path,           \* the argument of the latest get_device()
    get_ret,            \* what it returned
    last_call,          \* the latest call: "none", "scan" or "get_device"
    ncalls              \* calls made so far

apiVars == <<core_devices_cache, scan_inv, scan_ret, prev_inv, prev_ret,
             last_good, get_path, get_ret, last_call, ncalls>>

ApiInit ==
    /\ core_devices_cache = <<>>
    /\ scan_inv = NoInventory
    /\ scan_ret = NoResult
    /\ prev_inv = NoInventory
    /\ prev_ret = NoResult
    /\ last_good = <<>>
    /\ get_path = <<>>
    /\ get_ret = PyNone
    /\ last_call = "none"
    /\ ncalls = 0

\* api.scan(): core.scan_devices() assigns the cache on its last line but
\* one, so a call that fails or raises leaves the cache as it was.
ApiScan ==
    /\ ncalls < MaxApiCalls
    /\ ncalls' = ncalls + 1
    /\ last_call' = "scan"
    /\ \E inv \in ApiInventories :
         LET r == scan_devices(inv, core_devices_cache)
         IN  /\ scan_inv' = inv
             /\ scan_ret' = api_scan(r)
             /\ core_devices_cache' = IF r.raised THEN core_devices_cache ELSE r.val.cache
             /\ last_good' = IF ~r.raised /\ r.val.success THEN r.val.devices ELSE last_good
    /\ prev_inv' = scan_inv
    /\ prev_ret' = scan_ret
    /\ UNCHANGED <<get_path, get_ret>>

\* api.get_device(device_path)
ApiGetDevice ==
    /\ ncalls < MaxApiCalls
    /\ ncalls' = ncalls + 1
    /\ last_call' = "get_device"
    /\ \E device_path \in ApiPaths :
         /\ get_path' = device_path
         /\ get_ret' = get_device(core_devices_cache, device_path)
    /\ UNCHANGED <<core_devices_cache, scan_inv, scan_ret, prev_inv, prev_ret, last_good>>

ApiNext == ApiScan \/ ApiGetDevice

\* ------------------------------------------------------------------------
\* The graphical front end (gui.py): bounds and inputs
\* ------------------------------------------------------------------------
\* Wipe sessions started in one run of the model.
MaxSessions == 2
\* Buttons the user presses in one run of the model.
MaxClicks == 3
\* Scan threads running at the same time.
MaxScanThreads == 1
\* Status lines one wipe process emits.
MaxLines == 1
\* Largest byte count (in units of half the device size) a status line reports.
MaxBytes == 1
\* Utilization samples one sampler thread takes.
MaxSamples == 1

\* Popen.returncode of a child ended by SIGTERM and by SIGKILL.
RcSigTerm == -15
RcSigKill == -9
\* Exit status of a failed dd.
RcFailure == 1
\* collections.deque(maxlen=60)
util_maxlen == 60
\* What lsblk -b reports for a device, in the unit of MaxBytes; 0 is what
\* _get_device_size_bytes returns when the query fails.
DeviceSize == 2

Sessions == 1..MaxSessions

\* The inventories a scan of the model can meet.
GuiInventories ==
    { Inventory("ok",
        << Probe(InRecord(<<"s", "d", "b">>, PyStr(S_usb), PyStr(S_disk), PyBool(FALSE)),
                 SmartOut(FALSE, FALSE, FALSE, FALSE)),
           Probe(InRecord(<<"s", "d", "c">>, PyStr(<<"U", "S", "B">>), PyStr(S_disk), PyBool(TRUE)),
                 SmartOut(FALSE, FALSE, FALSE, FALSE)),
           Probe(InRecord(<<"s", "d", "a">>, PyStr(<<"s", "a", "t", "a">>), PyStr(S_disk), PyBool(TRUE)),
                 SmartOut(FALSE, FALSE, FALSE, FALSE)),
           Probe(InRecord(<<"s", "r", "0">>, PyStr(<<"s", "a", "t", "a">>), PyStr(<<"r", "o", "m">>), PyBool(FALSE)),
                 SmartOut(TRUE, TRUE, FALSE, FALSE)),
           Probe(InRecord(<<"l", "o", "o", "p", "0">>, PyStr(<<>>), PyStr(<<"l", "o", "o", "p">>), PyBool(FALSE)),
                 SmartOut(TRUE, TRUE, FALSE, FALSE)) >>),
      Inventory("ok",
        << Probe(InRecord(<<"n", "v", "m", "e", "0", "n", "1">>, PyNone, PyStr(S_disk), PyBool(FALSE)),
                 SmartOut(FALSE, FALSE, FALSE, FALSE)) >>),
      Inventory("error", <<>>) }

\* Popen.returncode: None until poll() has seen the child exit.
RcUnset == [set |-> FALSE]
Rc(code) == [set |-> TRUE, code |-> code]

NoCommand == Cmd(<<>>, <<>>, <<>>)

NoProcess == [state |-> "none", status |-> 0, returncode |-> RcUnset,
              term |-> FALSE, kill |-> FALSE, lines |-> 0, command |-> NoCommand]

NoDevice == [path |-> <<>>, classification |-> "UNKNOWN"]

VARIABLES
    is_wiping,       \* self.is_wiping
    current_device,  \* self.current_device
    wipe_process,    \* self.wipe_process: 0 for None, else the session whose Popen it is
    util_history,    \* self.util_history
    ui,              \* the widgets' values
    widgets,         \* the rows of devices_inner_frame
    devices_cache,   \* SecureWipeCore._devices_cache
    uiMode,          \* what the Tk thread is inside: the event loop, a modal question, a sleep
    afterQ,          \* callbacks scheduled with root.after(0, ...), oldest first
    nsessions,       \* sessions started so far
    wpc,             \* position of each session's _wipe_thread
    wdev,            \* the device argument of each _wipe_thread
    wsize,           \* device_size / total_size of each _wipe_thread
    procs,           \* the child process of each session
    mpc,             \* position of each session's _monitor_disk_activity thread
    mdev,            \* device_name of each _monitor_disk_activity thread
    msamples,        \* samples each sampler thread has taken
    scanning,        \* scan threads that have not delivered their result
    nclicks,         \* presses of a button the user has left
    reported         \* per session, the terminal handlers that ran for it

guiVars == <<is_wiping, current_device, wipe_process, util_history, ui, widgets,
             devices_cache, uiMode, afterQ, nsessions, wpc, wdev, wsize, procs,
             mpc, mdev, msamples, scanning, nclicks, reported>>

guiVarsButProcs ==
    <<is_wiping, current_device, wipe_process, util_history, ui, widgets,
      devices_cache, uiMode, afterQ, nsessions, wpc, wdev, wsize,
      mpc, mdev, msamples, scanning, nclicks, reported>>

VARIABLES
    util_tick,       \* the number of the latest sample of UtilUpdate
    util_since       \* samples of UtilUpdate since the history was last cleared

utilVars == <<util_tick, util_since>>

UtilInit ==
    /\ util_tick = 0
    /\ util_since = 0

VARIABLES
    pm_total_size,      \* the argument of _monitor_wipe_progress
    pm_output,          \* the words of the line the latest pass read
    pm_last_bytes,      \* its local last_bytes
    self_last_dd_speed,   \* self.last_dd_speed
    pm_parsed,          \* what the latest pass took from its line
    pm_posted,          \* the callbacks the latest pass scheduled
    pm_shown,           \* what the progress section shows once they have run
    pm_reading,         \* the loop has not been left
    pm_pass,            \* the latest pass: "none", "line" or "raised"
    pm_nlines           \* passes made so far

progVars == <<pm_total_size, pm_output, pm_last_bytes, self_last_dd_speed, pm_parsed, pm_posted,
              pm_shown, pm_reading, pm_pass, pm_nlines>>

VARIABLES
    iostat_installed \* the host has the iostat program

envVars == <<iostat_installed>>

\* A host with iostat, and any host.
EnvIdle == iostat_installed = TRUE
EnvInit == iostat_installed \in BOOLEAN

\* What the steps of the graphical front end leave alone.
\* An observation kept beside the program's state: what the last call of
\* _cancel_wipe that returned at its first test, without asking and without
\* signalling, found: no process handle, or the handle of an exited process.
VARIABLE cancel_ignored

obsVars == <<cancel_ignored>>

ObsInit == cancel_ignored = "never"

progOffVars == <<clVars, apiVars, utilVars, progVars, envVars>>

offVars == <<progOffVars, obsVars>>

vars == <<guiVars, offVars>>

Idle == [kind |-> "idle"]

\* SecureWipeGUI.__init__
\* The session part of the state after construction: no session, nothing
\* scheduled, the progress frame hidden.
SessionInit ==
    /\ is_wiping = FALSE
    /\ current_device = NoDevice
    /\ wipe_process = 0
    /\ util_history = <<>>
    /\ ui = [progress_frame |-> FALSE, progress_bar |-> 0, progress_status |-> "",
             status_msg |-> [kind |-> "none"], cancel_cmd |-> "cancel",
             scan_btn |-> "normal"]
    /\ uiMode = Idle
    /\ afterQ = <<>>
    /\ nsessions = 0
    /\ wpc = [h \in Sessions |-> "none"]
    /\ wdev = [h \in Sessions |-> NoDevice]
    /\ wsize = [h \in Sessions |-> 0]
    /\ procs = [h \in Sessions |-> NoProcess]
    /\ mpc = [h \in Sessions |-> "none"]
    /\ mdev = [h \in Sessions |-> <<>>]
    /\ msamples = [h \in Sessions |-> 0]
    /\ scanning = 0
    /\ reported = [h \in Sessions |-> <<>>]

GuiInit ==
    /\ SessionInit
    /\ widgets = <<>>
    /\ devices_cache = <<>>
    /\ nclicks = MaxClicks

\* root.after(0, callback) from any thread.
Post(q, cb) == Append(q, cb)

\* Popen.poll() on a process record: returncode takes the exit status once
\* the child has exited.
Polled(pr) == IF pr.state = "exited" THEN [pr EXCEPT !.returncode = Rc(pr.status)] ELSE pr

\* ------------------------------------------------------------------------
\* Scanning (gui.py)
\* ------------------------------------------------------------------------
\* SecureWipeGUI._scan_devices
scan_devices_ui ==
    IF is_wiping
    THEN UNCHANGED <<ui, scanning>>
    ELSE /\ scanning < MaxScanThreads
         /\ ui' = [ui EXCEPT !.scan_btn = "disabled"]
         /\ scanning' = scanning + 1

\* The user presses "Scan Devices".
ClickScan ==
    /\ uiMode = Idle
    /\ nclicks > 0
    /\ nclicks' = nclicks - 1
    /\ ui.scan_btn = "normal"
    /\ scan_devices_ui
    /\ UNCHANGED <<is_wiping, current_device, wipe_process, util_history, widgets,
                   devices_cache, uiMode, afterQ, nsessions, wpc, wdev, wsize, procs,
                   mpc, mdev, msamples, reported, offVars>>

\* SecureWipeGUI._refresh_scan: the user presses "Refresh".
ClickRefresh ==
    /\ uiMode = Idle
    /\ nclicks > 0
    /\ nclicks' = nclicks - 1
    /\ ui.scan_btn = "normal"
    /\ IF is_wiping
       THEN UNCHANGED <<ui, scanning>>
       ELSE scan_devices_ui
    /\ UNCHANGED <<is_wiping, current_device, wipe_process, util_history, widgets,
                   devices_cache, uiMode, afterQ, nsessions, wpc, wdev, wsize, procs,
                   mpc, mdev, msamples, reported, offVars>>

\* SecureWipeGUI._scan_thread: api.scan() on what the host holds, and the
\* result handed to the Tk thread. When api.scan() raises, the handler's
\* lambda reads e after the except block may have unbound it: ebound is
\* whether the callback runs before the block ends.
ScanThread ==
    /\ scanning > 0
    /\ \E inv \in GuiInventories :
         LET r == scan_devices(inv, devices_cache)
         IN  IF r.raised
             THEN /\ \E ebound \in BOOLEAN :
                       afterQ' = Post(afterQ, [k |-> "scan_failed", exc |-> r.exc, ebound |-> ebound])
                  /\ UNCHANGED devices_cache
             ELSE /\ afterQ' = Post(afterQ,
                        [k |-> "display",
                         result |-> [success |-> r.val.success, message |-> r.val.message,
                                     devices |-> [i \in 1..Len(r.val.devices) |->
                                                    device_to_dict(r.val.devices[i])]]])
                  /\ devices_cache' = r.val.cache
    /\ scanning' = scanning - 1
    /\ UNCHANGED <<is_wiping, current_device, wipe_process, util_history, ui, widgets,
                   uiMode, nsessions, wpc, wdev, wsize, procs, mpc, mdev, msamples,
                   reported, nclicks, offVars>>

\* Mutant: every device row gets a wipe button.
create_device_widget_any(device) == [device |-> device, wipe_btn |-> TRUE]

\* SecureWipeGUI._create_device_widget: the row of one device; only a USB
\* device gets a wipe button.
create_device_widget(device) ==
    [device |-> device, wipe_btn |-> device.classification = "USB"]

\* SecureWipeGUI._show_error
show_error(u) ==
    [u EXCEPT !.scan_btn = "normal"]

\* ------------------------------------------------------------------------
\* Starting a wipe (gui.py)
\* ------------------------------------------------------------------------
\* SecureWipeGUI._confirm_wipe up to the question: refuses when a wipe is
\* in progress, otherwise asks askyesno and waits for the answer.
confirm_wipe(device) ==
    IF is_wiping
    THEN UNCHANGED <<ui, uiMode>>
    ELSE /\ uiMode' = [kind |-> "confirm_wipe", device |-> device, result |-> "pending"]
         /\ UNCHANGED ui

\* The user presses the wipe button of a device row.
ClickWipe ==
    /\ uiMode = Idle
    /\ nclicks > 0
    /\ nclicks' = nclicks - 1
    /\ \E i \in 1..Len(widgets) :
         /\ widgets[i].wipe_btn
         /\ confirm_wipe(widgets[i].device)
    /\ UNCHANGED <<is_wiping, current_device, wipe_process, util_history, widgets,
                   devices_cache, afterQ, nsessions, wpc, wdev, wsize, procs,
                   mpc, mdev, msamples, scanning, reported, offVars>>

\* The user answers the open askyesno question.
AnswerQuestion ==
    /\ uiMode.kind \in {"confirm_wipe", "confirm_cancel"}
    /\ uiMode.result = "pending"
    /\ \E r \in {"yes", "no"} : uiMode' = [uiMode EXCEPT !.result = r]
    /\ UNCHANGED <<is_wiping, current_device, wipe_process, util_history, ui, widgets,
                   devices_cache, afterQ, nsessions, wpc, wdev, wsize, procs,
                   mpc, mdev, msamples, scanning, reported, nclicks, offVars>>

\* SecureWipeGUI._start_wipe
start_wipe(device) ==
    /\ nsessions < MaxSessions
    /\ is_wiping' = TRUE
    /\ current_device' = device
    /\ ui' = [ui EXCEPT !.scan_btn = "disabled", !.progress_frame = TRUE,
                        !.progress_bar = 0, !.progress_status = "Starting wipe",
                        !.status_msg = [kind |-> "none"]]
    /\ util_history' = <<>>
    /\ nsessions' = nsessions + 1
    /\ wpc' = [wpc EXCEPT ![nsessions + 1] = "start"]
    /\ wdev' = [wdev EXCEPT ![nsessions + 1] = device]
    /\ mpc' = [mpc EXCEPT ![nsessions + 1] = "begin"]

\* SecureWipeGUI._confirm_wipe after the question: if result: _start_wipe
confirm_wipe_result(device, result) ==
    IF result = "yes"
    THEN start_wipe(device)
    ELSE UNCHANGED <<is_wiping, current_device, ui, util_history, nsessions, wpc, wdev, mpc>>

\* askyesno returns to _confirm_wipe.
ConfirmWipeReturn ==
    /\ uiMode.kind = "confirm_wipe"
    /\ uiMode.result # "pending"
    /\ confirm_wipe_result(uiMode.device, uiMode.result)
    /\ uiMode' = Idle
    /\ UNCHANGED <<wipe_process, widgets, devices_cache, afterQ, wsize, procs,
                   mdev, msamples, scanning, reported, nclicks, offVars>>

\* ------------------------------------------------------------------------
\* The wipe thread (gui.py)
\* ------------------------------------------------------------------------
\* Mutant: the thread launches shred, the alternative the selector's list
\* only mentions in a comment.
wipe_command_shred(device) ==
    Cmd(<<"sudo", "shred", "-vfz", "-n", "1">>, device.path, <<>>)

\* command = f"sudo dd if=/dev/zero of={device['path']} bs=1M status=progress"
wipe_command(device) ==
    Cmd(<<"sudo", "dd", "if=/dev/zero", "of=">>, device.path, <<"bs=1M", "status=progress">>)

\* _wipe_thread up to a successful Popen: the size query (0 when it
\* fails), the "Wiping ..." status update, and self.wipe_process set to the
\* new child.
WipeThreadPopen(h) ==
    /\ wpc[h] = "start"
    /\ \E size \in {0, DeviceSize} : wsize' = [wsize EXCEPT ![h] = size]
    /\ afterQ' = Post(afterQ, [k |-> "status", text |-> "Wiping"])
    /\ wipe_process' = h
    /\ procs' = [procs EXCEPT ![h] = [NoProcess EXCEPT !.state = "running",
                                                       !.command = wipe_command(wdev[h])]]
    /\ wpc' = [wpc EXCEPT ![h] = "loop"]
    /\ UNCHANGED <<is_wiping, current_device, util_history, ui, widgets, devices_cache,
                   uiMode, nsessions, wdev, mpc, mdev, msamples,
                   scanning, reported, nclicks, offVars>>

\* _wipe_thread when Popen raises (sudo is missing): the except block
\* schedules _wipe_error through a lambda that reads e; the block unbinds e
\* when it ends, so the callback finds e only when it runs before that
\* (ebound).
WipeThreadPopenFails(h) ==
    /\ wpc[h] = "start"
    /\ \E ebound \in BOOLEAN :
         afterQ' = Post(Post(afterQ, [k |-> "status", text |-> "Wiping"]),
                        [k |-> "wipe_error", h |-> h, ebound |-> ebound,
                         msg |-> [kind |-> "Wipe failed", exc |-> "FileNotFoundError"]])
    /\ wpc' = [wpc EXCEPT ![h] = "done"]
    /\ wdev' = [wdev EXCEPT ![h] = NoDevice]
    /\ wsize' = [wsize EXCEPT ![h] = 0]
    /\ UNCHANGED <<is_wiping, current_device, wipe_process, util_history, ui, widgets,
                   devices_cache, uiMode, nsessions, procs, mpc, mdev,
                   msamples, scanning, reported, nclicks, offVars>>

\* (bytes_copied / total_size) * 100, in whole percent
Percent(bytes_copied, total_size) == (bytes_copied * 100) \div total_size

\* One pass of the loop of _monitor_wipe_progress that reads a line the
\* child wrote: a progress line (bytes > 0) or a line the pattern does not
\* match (bytes = 0).
WipeThreadReadLine(h) ==
    /\ wpc[h] = "loop"
    /\ wipe_process # 0
    /\ procs[wipe_process].state = "running"
    /\ procs[wipe_process].lines < MaxLines
    /\ \E bytes \in 0..MaxBytes :
         afterQ' = IF bytes > 0
                   THEN Post(afterQ, [k |-> "progress", bytes |-> bytes, total |-> wsize[h]])
                   ELSE afterQ
    /\ procs' = [procs EXCEPT ![wipe_process].lines = @ + 1]
    /\ UNCHANGED <<is_wiping, current_device, wipe_process, util_history, ui, widgets,
                   devices_cache, uiMode, nsessions, wpc, wdev, wsize, mpc, mdev,
                   msamples, scanning, reported, nclicks, offVars>>

\* A pass of the loop raises (readline cannot decode what the child wrote):
\* except Exception: break, with the child still running.
WipeThreadReadRaises(h) ==
    /\ wpc[h] = "loop"
    /\ wipe_process # 0
    /\ procs[wipe_process].state = "running"
    /\ procs[wipe_process].lines < MaxLines
    /\ procs' = [procs EXCEPT ![wipe_process].lines = @ + 1]
    /\ wpc' = [wpc EXCEPT ![h] = "after_loop"]
    /\ UNCHANGED <<is_wiping, current_device, wipe_process, util_history, ui, widgets,
                   devices_cache, uiMode, afterQ, nsessions, wdev, wsize, mpc, mdev,
                   msamples, scanning, reported, nclicks, offVars>>

\* The loop condition finds the child gone: self.wipe_process.poll() is
\* not None.
WipeThreadSeesExit(h) ==
    /\ wpc[h] = "loop"
    /\ wipe_process # 0
    /\ procs[wipe_process].state = "exited"
    /\ procs' = [procs EXCEPT ![wipe_process] = Polled(@)]
    /\ wpc' = [wpc EXCEPT ![h] = "after_loop"]
    /\ UNCHANGED <<is_wiping, current_device, wipe_process, util_history, ui, widgets,
                   devices_cache, uiMode, afterQ, nsessions, wdev, wsize, mpc, mdev,
                   msamples, scanning, reported, nclicks, offVars>>

\* _monitor_wipe_progress after the loop: the callback chosen from
\* self.wipe_process.returncode.
after_loop_callback(h, return_code) ==
    IF return_code.set /\ return_code.code = 0
    THEN [k |-> "wipe_completed", h |-> h]
    ELSE IF ~return_code.set
    THEN [k |-> "wipe_cancelled", h |-> h]
    ELSE [k |-> "wipe_error", h |-> h, ebound |-> TRUE,
          msg |-> [kind |-> "Wipe failed with exit code", code |-> return_code.code]]

\* The tail of _monitor_wipe_progress.
WipeThreadAfterLoop(h) ==
    /\ wpc[h] = "after_loop"
    /\ afterQ' = IF wipe_process # 0
                 THEN Post(afterQ, after_loop_callback(h, procs[wipe_process].returncode))
                 ELSE afterQ
    /\ wpc' = [wpc EXCEPT ![h] = "done"]
    /\ wdev' = [wdev EXCEPT ![h] = NoDevice]
    /\ wsize' = [wsize EXCEPT ![h] = 0]
    /\ UNCHANGED <<is_wiping, current_device, wipe_process, util_history, ui, widgets,
                   devices_cache, uiMode, nsessions, procs, mpc, mdev,
                   msamples, scanning, reported, nclicks, offVars>>

\* ------------------------------------------------------------------------
\* The child process
\* ------------------------------------------------------------------------
\* The child ends by itself, with success or with a failure status.
ProcessExits(h) ==
    /\ procs[h].state = "running"
    /\ \E status \in {0, RcFailure} :
         procs' = [procs EXCEPT ![h].state = "exited", ![h].status = status, ![h].lines = 0]
    /\ UNCHANGED <<guiVarsButProcs, offVars>>

\* The child is ended by a signal it was sent.
ProcessKilled(h) ==
    /\ procs[h].state = "running"
    /\ procs[h].term \/ procs[h].kill
    /\ \E status \in {s \in {RcSigTerm, RcSigKill} :
                          \/ s = RcSigTerm /\ procs[h].term
                          \/ s = RcSigKill /\ procs[h].kill} :
         procs' = [procs EXCEPT ![h].state = "exited", ![h].status = status, ![h].lines = 0]
    /\ UNCHANGED <<guiVarsButProcs, offVars>>

\* ------------------------------------------------------------------------
\* The utilization sampler thread (gui.py)
\* ------------------------------------------------------------------------
\* path.split('/')[-1]
LastComponent(path) ==
    LET slashes == {i \in 1..Len(path) : path[i] = "/"}
        last == IF slashes = {} THEN 0 ELSE CHOOSE i \in slashes : \A j \in slashes : j <= i
    IN  SubSeq(path, last + 1, Len(path))

\* _monitor_disk_activity before its loop: device_name
SamplerBegin(h) ==
    /\ mpc[h] = "begin"
    /\ mdev' = [mdev EXCEPT ![h] = LastComponent(current_device.path)]
    /\ mpc' = [mpc EXCEPT ![h] = "check"]
    /\ UNCHANGED <<is_wiping, current_device, wipe_process, util_history, ui, widgets,
                   devices_cache, uiMode, afterQ, nsessions, wpc, wdev, wsize, procs,
                   msamples, scanning, reported, nclicks, offVars>>

\* The head of the loop: while self.is_wiping; the wait for
\* self.wipe_process (the pass that only sleeps is left out); the poll()
\* that ends the loop when the process self.wipe_process names has exited.
\* The thread's locals go with it when it returns.
SamplerCheck(h) ==
    /\ mpc[h] = "check"
    /\ ~is_wiping \/ wipe_process # 0
    /\ LET leaves == ~is_wiping \/ procs[wipe_process].state = "exited"
       IN  /\ procs' = IF is_wiping THEN [procs EXCEPT ![wipe_process] = Polled(@)] ELSE procs
           /\ mpc' = [mpc EXCEPT ![h] = IF leaves THEN "done" ELSE "iostat"]
           /\ mdev' = IF leaves THEN [mdev EXCEPT ![h] = <<>>] ELSE mdev
           /\ msamples' = IF leaves THEN [msamples EXCEPT ![h] = 0] ELSE msamples
    /\ UNCHANGED <<is_wiping, current_device, wipe_process, util_history, ui, widgets,
                   devices_cache, uiMode, afterQ, nsessions, wpc, wdev, wsize,
                   scanning, reported, nclicks, offVars>>

\* What subprocess.run(['iostat', ...]) and the parsing of its output come
\* to: a sample, no usable line, an exception that is not
\* FileNotFoundError (a timeout), or FileNotFoundError when the host has
\* no iostat.
IostatOutcomes ==
    IF iostat_installed THEN {"sample", "nothing", "Exception"} ELSE {"FileNotFoundError"}

\* Mutant: FileNotFoundError is handled like any other exception.
SamplerIostat_retries(h) ==
    /\ mpc[h] = "iostat"
    /\ \E outcome \in IostatOutcomes :
         /\ outcome = "sample" => msamples[h] < MaxSamples
         /\ afterQ' = IF outcome = "sample"
                      THEN Post(afterQ, [k |-> "util", of |-> h, u |-> [dev |-> mdev[h]]])
                      ELSE afterQ
         /\ msamples' = [msamples EXCEPT ![h] =
                           CASE outcome = "sample" -> @ + 1
                             [] outcome \in {"nothing", "Exception"} -> @
                             [] OTHER -> 0]
         /\ mdev' = mdev
         /\ mpc' = [mpc EXCEPT ![h] = "check"]
    /\ UNCHANGED <<is_wiping, current_device, wipe_process, util_history, ui, widgets,
                   devices_cache, uiMode, nsessions, wpc, wdev, wsize, procs,
                   scanning, reported, nclicks, offVars>>

\* Mutant: the sampler thread appends the sample itself instead of handing
\* it to the Tk thread.
SamplerIostat_appends(h) ==
    /\ mpc[h] = "iostat"
    /\ \E outcome \in IostatOutcomes :
         /\ outcome = "sample" => msamples[h] < MaxSamples
         /\ util_history' = IF outcome = "sample"
                            THEN Append(util_history, [dev |-> mdev[h]])
                            ELSE util_history
         /\ msamples' = [msamples EXCEPT ![h] =
                           CASE outcome = "sample" -> @ + 1
                             [] outcome \in {"nothing", "Exception"} -> @
                             [] OTHER -> 0]
         /\ mdev' = IF outcome = "FileNotFoundError" THEN [mdev EXCEPT ![h] = <<>>] ELSE mdev
         /\ mpc' = [mpc EXCEPT ![h] = IF outcome = "FileNotFoundError" THEN "done" ELSE "check"]
    /\ UNCHANGED <<is_wiping, current_device, wipe_process, afterQ, ui, widgets,
                   devices_cache, uiMode, nsessions, wpc, wdev, wsize, procs,
                   scanning, reported, nclicks, offVars>>

\* iostat -xy 1 1 device_name: a parsed sample is handed to the Tk thread;
\* no usable line goes back to the head of the loop after a second, any
\* other exception after a back-off of two; FileNotFoundError ends the
\* thread.
SamplerIostat(h) ==
    /\ mpc[h] = "iostat"
    /\ \E outcome \in IostatOutcomes :
         /\ outcome = "sample" => msamples[h] < MaxSamples
         /\ afterQ' = IF outcome = "sample"
                      THEN Post(afterQ, [k |-> "util", of |-> h, u |-> [dev |-> mdev[h]]])
                      ELSE afterQ
         /\ msamples' = [msamples EXCEPT ![h] =
                           CASE outcome = "sample" -> @ + 1
                             [] outcome \in {"nothing", "Exception"} -> @
                             [] OTHER -> 0]
         /\ mdev' = IF outcome = "FileNotFoundError" THEN [mdev EXCEPT ![h] = <<>>] ELSE mdev
         /\ mpc' = [mpc EXCEPT ![h] = IF outcome = "FileNotFoundError" THEN "done" ELSE "check"]
    /\ UNCHANGED <<is_wiping, current_device, wipe_process, util_history, ui, widgets,
                   devices_cache, uiMode, nsessions, wpc, wdev, wsize, procs,
                   scanning, reported, nclicks, offVars>>

\* ------------------------------------------------------------------------
\* Cancelling (gui.py)
\* ------------------------------------------------------------------------
\* Mutant: _cancel_wipe asks whenever the progress frame is shown, without
\* testing self.wipe_process and poll().
ClickCancel_asks_always ==
    /\ uiMode = Idle
    /\ nclicks > 0
    /\ nclicks' = nclicks - 1
    /\ ui.progress_frame
    /\ ui.cancel_cmd = "cancel"
    /\ uiMode' = [kind |-> "confirm_cancel", result |-> "pending"]
    /\ UNCHANGED <<is_wiping, current_device, wipe_process, util_history, ui, widgets,
                   devices_cache, afterQ, nsessions, wpc, wdev, wsize, procs,
                   mpc, mdev, msamples, scanning, reported, offVars>>

\* _cancel_wipe up to the question: asks only when self.wipe_process is set
\* and poll() is None.
ClickCancel ==
    /\ uiMode = Idle
    /\ nclicks > 0
    /\ nclicks' = nclicks - 1
    /\ ui.progress_frame
    /\ ui.cancel_cmd = "cancel"
    /\ IF wipe_process # 0
       THEN /\ procs' = [procs EXCEPT ![wipe_process] = Polled(@)]
            /\ uiMode' = IF procs[wipe_process].state = "running"
                         THEN [kind |-> "confirm_cancel", result |-> "pending"]
                         ELSE uiMode
            /\ cancel_ignored' = IF procs[wipe_process].state = "running"
                                 THEN cancel_ignored
                                 ELSE "exited"
       ELSE /\ cancel_ignored' = "no_process"
            /\ UNCHANGED <<procs, uiMode>>
    /\ UNCHANGED <<is_wiping, current_device, wipe_process, util_history, ui, widgets,
                   devices_cache, afterQ, nsessions, wpc, wdev, wsize,
                   mpc, mdev, msamples, scanning, reported, progOffVars>>

\* os.killpg(os.getpgid(pid), signal.SIGTERM): reaches the child while it
\* runs; for a child that is gone the call raises and the fallback
\* terminate() does nothing.
cancel_signal(pr) == [pr EXCEPT !.term = TRUE]

\* _cancel_wipe after the question: on yes the signal, then time.sleep(0.5)
\* on the Tk thread.
CancelWipeReturn ==
    /\ uiMode.kind = "confirm_cancel"
    /\ uiMode.result # "pending"
    /\ IF uiMode.result = "yes"
       THEN /\ procs' = [procs EXCEPT ![wipe_process] =
                           IF @.state = "running" THEN cancel_signal(@) ELSE @]
            /\ uiMode' = [kind |-> "grace"]
       ELSE /\ uiMode' = Idle
            /\ UNCHANGED procs
    /\ UNCHANGED <<is_wiping, current_device, wipe_process, util_history, ui, widgets,
                   devices_cache, afterQ, nsessions, wpc, wdev, wsize,
                   mpc, mdev, msamples, scanning, reported, nclicks, offVars>>

\* _cancel_wipe after the sleep: if poll() is None, SIGKILL.
CancelGraceEnd ==
    /\ uiMode.kind = "grace"
    /\ procs' = [procs EXCEPT ![wipe_process] =
                   IF @.state = "running" THEN [@ EXCEPT !.kill = TRUE] ELSE Polled(@)]
    /\ uiMode' = Idle
    /\ UNCHANGED <<is_wiping, current_device, wipe_process, util_history, ui, widgets,
                   devices_cache, afterQ, nsessions, wpc, wdev, wsize,
                   mpc, mdev, msamples, scanning, reported, nclicks, offVars>>

\* SecureWipeGUI._close_progress: the user presses "Close".
ClickClose ==
    /\ uiMode = Idle
    /\ nclicks > 0
    /\ nclicks' = nclicks - 1
    /\ ui.progress_frame
    /\ ui.cancel_cmd = "close"
    /\ ui' = [ui EXCEPT !.progress_frame = FALSE, !.cancel_cmd = "cancel"]
    /\ UNCHANGED <<is_wiping, current_device, wipe_process, util_history, widgets,
                   devices_cache, uiMode, afterQ, nsessions, wpc, wdev, wsize, procs,
                   mpc, mdev, msamples, scanning, reported, offVars>>

\* ------------------------------------------------------------------------
\* Callbacks run by the Tk thread (gui.py)
\* ------------------------------------------------------------------------
\* The Tk thread runs the oldest scheduled callback: in its event loop or
\* in the event loop of an open question, not while it sleeps.
Runs(kind) ==
    /\ uiMode.kind # "grace"
    /\ afterQ # <<>>
    /\ Head(afterQ).k = kind
    /\ afterQ' = Tail(afterQ)

\* lambda: self.progress_status.config(text=f"Wiping {device['path']}...")
RunStatus ==
    /\ Runs("status")
    /\ ui' = [ui EXCEPT !.progress_status = Head(afterQ).text]
    /\ UNCHANGED <<is_wiping, current_device, wipe_process, util_history, widgets,
                   devices_cache, uiMode, nsessions, wpc, wdev, wsize, procs,
                   mpc, mdev, msamples, scanning, reported, nclicks, offVars>>

\* SecureWipeGUI._wipe_completed, on the widgets
wipe_completed(u) ==
    [u EXCEPT !.progress_bar = 100, !.progress_status = "Wipe completed successfully!",
              !.scan_btn = "normal", !.cancel_cmd = "close"]

\* SecureWipeGUI._wipe_cancelled, on the widgets
wipe_cancelled(u) ==
    [u EXCEPT !.progress_status = "Wipe operation cancelled",
              !.scan_btn = "normal", !.cancel_cmd = "close"]

\* SecureWipeGUI._wipe_error, on the widgets
wipe_error(u, error_msg) ==
    [u EXCEPT !.progress_status = "Error", !.status_msg = error_msg,
              !.scan_btn = "normal", !.cancel_cmd = "close"]

\* The progress updates one parsed line schedules: the bars only when the
\* size is known, the texts always.
RunProgress ==
    /\ Runs("progress")
    /\ LET cb == Head(afterQ)
       IN  ui' = [ui EXCEPT !.progress_bar = IF cb.total > 0 THEN Percent(cb.bytes, cb.total) ELSE @,
                            !.progress_status = "Wiped"]
    /\ UNCHANGED <<is_wiping, current_device, wipe_process, util_history, widgets,
                   devices_cache, uiMode, nsessions, wpc, wdev, wsize, procs,
                   mpc, mdev, msamples, scanning, reported, nclicks, offVars>>

RunWipeCompleted ==
    /\ Runs("wipe_completed")
    /\ ui' = wipe_completed(ui)
    /\ is_wiping' = FALSE
    /\ reported' = [reported EXCEPT ![Head(afterQ).h] = Append(@, "Completed")]
    /\ UNCHANGED <<current_device, wipe_process, util_history, widgets,
                   devices_cache, uiMode, nsessions, wpc, wdev, wsize, procs,
                   mpc, mdev, msamples, scanning, nclicks, offVars>>

RunWipeCancelled ==
    /\ Runs("wipe_cancelled")
    /\ ui' = wipe_cancelled(ui)
    /\ is_wiping' = FALSE
    /\ reported' = [reported EXCEPT ![Head(afterQ).h] = Append(@, "Cancelled")]
    /\ UNCHANGED <<current_device, wipe_process, util_history, widgets,
                   devices_cache, uiMode, nsessions, wpc, wdev, wsize, procs,
                   mpc, mdev, msamples, scanning, nclicks, offVars>>

\* The scheduled lambda calls _wipe_error; when it reads an unbound e it
\* raises NameError instead and Tk reports the exception.
RunWipeError ==
    /\ Runs("wipe_error")
    /\ IF Head(afterQ).ebound
       THEN /\ ui' = wipe_error(ui, Head(afterQ).msg)
            /\ is_wiping' = FALSE
            /\ reported' = [reported EXCEPT ![Head(afterQ).h] = Append(@, "Failed")]
       ELSE UNCHANGED <<ui, is_wiping, reported>>
    /\ UNCHANGED <<current_device, wipe_process, util_history, widgets,
                   devices_cache, uiMode, nsessions, wpc, wdev, wsize, procs,
                   mpc, mdev, msamples, scanning, nclicks, offVars>>

\* SecureWipeGUI._display_devices
RunDisplay ==
    /\ Runs("display")
    /\ LET result == Head(afterQ).result
       IN  IF ~result.success
           THEN /\ widgets' = <<>>
                /\ ui' = show_error(ui)
           ELSE /\ widgets' = [i \in 1..Len(result.devices) |-> create_device_widget(result.devices[i])]
                /\ ui' = [ui EXCEPT !.scan_btn = "normal"]
    /\ UNCHANGED <<is_wiping, current_device, wipe_process, util_history,
                   devices_cache, uiMode, nsessions, wpc, wdev, wsize, procs,
                   mpc, mdev, msamples, scanning, reported, nclicks, offVars>>

\* lambda: self._show_error(f"Scan failed: {str(e)}")
RunScanFailed ==
    /\ Runs("scan_failed")
    /\ IF Head(afterQ).ebound
       THEN /\ widgets' = <<>>
            /\ ui' = show_error(ui)
       ELSE UNCHANGED <<widgets, ui>>
    /\ UNCHANGED <<is_wiping, current_device, wipe_process, util_history,
                   devices_cache, uiMode, nsessions, wpc, wdev, wsize, procs,
                   mpc, mdev, msamples, scanning, reported, nclicks, offVars>>

\* Mutant: a deque without maxlen.
DequeAppend_unbounded(dq, x) == Append(dq, x)

\* deque.append with maxlen: the oldest entry leaves a full deque.
DequeAppend(dq, x) ==
    IF Len(dq) >= util_maxlen THEN Append(Tail(dq), x) ELSE Append(dq, x)

\* SecureWipeGUI._update_utilization
RunUtil ==
    /\ Runs("util")
    /\ util_history' = DequeAppend(util_history, Head(afterQ).u)
    /\ UNCHANGED <<is_wiping, current_device, wipe_process, ui, widgets,
                   devices_cache, uiMode, nsessions, wpc, wdev, wsize, procs,
                   mpc, mdev, msamples, scanning, reported, nclicks, offVars>>

\* ------------------------------------------------------------------------
\* The progress lines of dd (gui.py, _monitor_wipe_progress)
\* ------------------------------------------------------------------------
\* A line the child wrote is the sequence of its words, output.split();
\* a word is its characters.
Digits == <<"0", "1", "2", "3", "4", "5", "6", "7", "8", "9">>

IsDigit(c) == \E d \in 1..10 : Digits[d] = c

DigitValue(c) == (CHOOSE d \in 1..10 : Digits[d] = c) - 1

RECURSIVE ParseInt(_)
\* int(chars) for a run of digits
ParseInt(chars) ==
    IF chars = <<>> THEN 0
    ELSE ParseInt(SubSeq(chars, 1, Len(chars) - 1)) * 10 + DigitValue(chars[Len(chars)])

RECURSIVE ToDigits(_)
\* str(n) for n >= 0
ToDigits(n) ==
    IF n < 10 THEN <<Digits[n + 1]>> ELSE ToDigits(n \div 10) \o <<Digits[(n % 10) + 1]>>

\* The text of a decimal number given in tenths: 524 is "52.4".
DecimalText(tenths) == ToDigits(tenths \div 10) \o <<".">> \o ToDigits(tenths % 10)

\* chars matches \d+ in full.
IsDigitRun(chars) == chars # <<>> /\ \A i \in 1..Len(chars) : IsDigit(chars[i])

\* chars matches \d+\.?\d* in full.
IsNumberText(chars) ==
    \/ IsDigitRun(chars)
    \/ \E k \in 2..Len(chars) :
          /\ chars[k] = "."
          /\ IsDigitRun(SubSeq(chars, 1, k - 1))
          /\ k < Len(chars) => IsDigitRun(SubSeq(chars, k + 1, Len(chars)))

\* float(chars) in tenths, for a text of the form \d+\.?\d* (digits after
\* the first decimal are dropped).
ParseTenths(chars) ==
    IF IsDigitRun(chars) THEN ParseInt(chars) * 10
    ELSE LET k == CHOOSE k \in 2..Len(chars) : chars[k] = "."
         IN  ParseInt(SubSeq(chars, 1, k - 1)) * 10
               + (IF k < Len(chars) THEN DigitValue(chars[k + 1]) ELSE 0)

\* sub in chars
Contains(chars, sub) ==
    \E i \in 1..(Len(chars) - Len(sub) + 1) : SubSeq(chars, i, i + Len(sub) - 1) = sub

\* The longest end of the word that is a run of digits, or <<>>: what
\* (\d+) takes from a word when a space follows the group.
DigitEnding(word) ==
    LET starts == { i \in 1..Len(word) : IsDigitRun(SubSeq(word, i, Len(word))) }
    IN  IF starts = {} THEN <<>>
        ELSE SubSeq(word, CHOOSE i \in starts : \A j \in starts : i <= j, Len(word))

\* The same for (\d+\.?\d*).
NumberEnding(word) ==
    LET starts == { i \in 1..Len(word) : IsNumberText(SubSeq(word, i, Len(word))) }
    IN  IF starts = {} THEN <<>>
        ELSE SubSeq(word, CHOOSE i \in starts : \A j \in starts : i <= j, Len(word))

\* The first match of (\d+\.?\d*) in a word, or <<>>: re.search takes the
\* leftmost digit and from there as many characters as the pattern allows.
FirstNumber(word) ==
    LET starts == { i \in 1..Len(word) : IsDigit(word[i]) }
    IN  IF starts = {} THEN <<>>
        ELSE LET i == CHOOSE i \in starts : \A j \in starts : i <= j
                 ends == { e \in i..Len(word) : IsNumberText(SubSeq(word, i, e)) }
             IN  SubSeq(word, i, CHOOSE e \in ends : \A f \in ends : f <= e)

W_bytes == <<"b", "y", "t", "e", "s">>
W_copied == <<"c", "o", "p", "i", "e", "d">>
W_Bps == <<"B", "/", "s">>
W_GBps == <<"G", "B", "/", "s">>
W_MBps == <<"M", "B", "/", "s">>
W_KBps == <<"K", "B", "/", "s">>

\* The word starts with [KMGT]?B/s.
StartsWithRate(word) ==
    \/ StartsWith(word, W_Bps)
    \/ Len(word) > 0 /\ word[1] \in {"K", "M", "G", "T"} /\ StartsWith(Tail(word), W_Bps)

\* re.search(r'(\d+) bytes.*copied.*?(\d+\.?\d*) s.*?(\d+\.?\d*) [KMGT]?B/s',
\* output) on the words of the line: the positions i < c < j < k of the
\* byte count (before a word starting with "bytes"), a word holding
\* "copied", the seconds (before a word starting with "s") and the rate
\* (before a word starting with the unit).
PatternMatches(words) ==
    LET followed == 1..(Len(words) - 1)
        bytes_at == { i \in followed : /\ DigitEnding(words[i]) # <<>>
                                       /\ StartsWith(words[i + 1], W_bytes) }
        copied_at == { c \in 1..Len(words) : Contains(words[c], W_copied) }
        seconds_at == { j \in followed : /\ NumberEnding(words[j]) # <<>>
                                         /\ StartsWith(words[j + 1], <<"s">>) }
        rate_at == { k \in followed : /\ NumberEnding(words[k]) # <<>>
                                      /\ StartsWithRate(words[k + 1]) }
    IN  { m \in bytes_at \X copied_at \X seconds_at \X rate_at :
            m[1] < m[2] /\ m[2] < m[3] /\ m[3] < m[4] }

\* The match re.search returns: the leftmost byte count, then the last
\* "copied" (.* is greedy), then the first seconds and the first rate
\* (.*? is lazy).
FirstMatch(words) ==
    LET ms == PatternMatches(words)
        Before(a, b) ==
           \/ a[1] < b[1]
           \/ a[1] = b[1] /\ a[2] > b[2]
           \/ a[1] = b[1] /\ a[2] = b[2] /\ a[3] < b[3]
           \/ a[1] = b[1] /\ a[2] = b[2] /\ a[3] = b[3] /\ a[4] <= b[4]
    IN  CHOOSE m \in ms : \A o \in ms : Before(m, o)

RECURSIVE GCD(_, _)
GCD(a, b) == IF b = 0 THEN a ELSE GCD(b, a % b)

\* floor(a * scale / b) for a >= 0 and b > 0, on the reduced fraction.
ScaledRatio(a, scale, b) ==
    LET g == GCD(a, b)
    IN  ((a \div g) * scale) \div (b \div g)

\* (bytes_copied / total_size) * 100, in hundredths of a percent.
progress_percent(bytes_copied, total_size) == ScaledRatio(bytes_copied, 10000, total_size)

\* speed_mb from the number and the text it was found in, in units of
\* 1/10240 MB/s so that the division by 1024 stays whole.
speed_mb(speed_tenths, speed_text) ==
    IF Contains(speed_text, W_GBps) THEN speed_tenths * 1024 * 1024
    ELSE IF Contains(speed_text, W_MBps) THEN speed_tenths * 1024
    ELSE IF Contains(speed_text, W_KBps) THEN speed_tenths
    ELSE speed_tenths * 1024

\* eta_str: "ETA: Calculating..." or the seconds left, in tenths.
eta(bytes_copied, time_tenths, total_size, last_bytes) ==
    IF bytes_copied > last_bytes /\ time_tenths > 0
    THEN [kind |-> "seconds",
          tenths |-> IF total_size >= bytes_copied
                     THEN ScaledRatio(total_size - bytes_copied, time_tenths, bytes_copied)
                     ELSE 0 - ScaledRatio(bytes_copied - total_size, time_tenths, bytes_copied)]
    ELSE [kind |-> "calculating"]

NothingParsed == [matched |-> FALSE]

\* The body of "if match:" in _monitor_wipe_progress: what the pass
\* parsed, the callbacks it scheduled, last_bytes and self.last_dd_speed
\* after it, and whether the loop goes on.
parse_line(words, total_size, last_bytes, last_dd_speed) ==
    LET m == FirstMatch(words)
        bytes_copied == ParseInt(DigitEnding(words[m[1]]))
        time_elapsed == ParseTenths(NumberEnding(words[m[3]]))
        speed_text == words[Len(words)]
        speed_match == FirstNumber(speed_text)
        speed == IF speed_match # <<>>
                 THEN speed_mb(ParseTenths(speed_match), speed_text)
                 ELSE last_dd_speed
        bars == IF total_size > 0
                THEN << [k |-> "progress_bar", value |-> progress_percent(bytes_copied, total_size)],
                        [k |-> "disk_usage_bar", value |-> progress_percent(bytes_copied, total_size)],
                        [k |-> "disk_usage_label", value |-> progress_percent(bytes_copied, total_size)] >>
                ELSE <<>>
        texts == << [k |-> "progress_status", copied |-> bytes_copied, total |-> total_size],
                    [k |-> "progress_details", elapsed |-> time_elapsed],
                    [k |-> "total_written", copied |-> bytes_copied],
                    [k |-> "eta", value |-> eta(bytes_copied, time_elapsed, total_size, last_bytes)] >>
    IN  [parsed |-> [matched |-> TRUE, bytes_copied |-> bytes_copied,
                     time_elapsed |-> time_elapsed, speed_found |-> speed_match # <<>>],
         posted |-> bars \o texts,
         last_bytes |-> bytes_copied,
         last_dd_speed |-> speed,
         running |-> TRUE]

\* Mutant: a line the pattern does not match ends the loop.
monitor_line_strict(words, total_size, last_bytes, last_dd_speed) ==
    IF PatternMatches(words) = {}
    THEN [parsed |-> NothingParsed, posted |-> <<>>, last_bytes |-> last_bytes,
          last_dd_speed |-> last_dd_speed, running |-> FALSE]
    ELSE parse_line(words, total_size, last_bytes, last_dd_speed)

\* One pass of the loop of _monitor_wipe_progress on a line that was read:
\* a line the pattern does not match goes by without a trace.
monitor_line(words, total_size, last_bytes, last_dd_speed) ==
    IF PatternMatches(words) = {}
    THEN [parsed |-> NothingParsed, posted |-> <<>>, last_bytes |-> last_bytes,
          last_dd_speed |-> last_dd_speed, running |-> TRUE]
    ELSE parse_line(words, total_size, last_bytes, last_dd_speed)

\* Lines one run of the model reads.
MaxProgressLines == 2

\* A status line of dd: "<N> bytes (105 MB) copied, <T> s, <S> <unit>",
\* T and S in tenths.
DdLine(n, t, s, unit) ==
    << ToDigits(n), W_bytes, <<"(", "1", "0", "5">>, <<"M", "B", ")">>,
       W_copied \o <<",">>, DecimalText(t), <<"s", ",">>, DecimalText(s), unit >>

\* Byte counts, seconds and rates of the status lines; 104857600 bytes in
\* 2.0 s at 52.4 MB/s is the line of the specification's example.
LineBytes == {1024, 3072, 104857600}
LineTenths == {0, 20}
LineRates == { <<524, W_MBps>>, <<12, W_GBps>>, <<5120, W_KBps>> }

StatusLines ==
    { DdLine(n, t, r[1], r[2]) : n \in LineBytes, t \in LineTenths, r \in LineRates }

\* Lines that are no status line: a status line cut short, the other lines
\* dd writes, and an empty line.
OtherLines ==
    { SubSeq(DdLine(104857600, 20, 524, W_MBps), 1, k) : k \in 0..8 }
      \cup { Tail(DdLine(104857600, 20, 524, W_MBps)),
             << <<"1", "0", "0", "+", "0">>, <<"r", "e", "c", "o", "r", "d", "s">>, <<"i", "n">> >>,
             << <<"d", "d", ":">>, <<"e", "r", "r", "o", "r">>, W_bytes, W_copied >> }

\* What lsblk -b reports for the device; 0 when the query fails.
TotalSizes == {0, 2048, 1073741824}

NothingShown == [progress_bar |-> 0, disk_usage |-> 0, copied |-> 0, elapsed |-> 0,
                 eta |-> [kind |-> "calculating"]]

\* The progress section after the callbacks of one pass have run.
Show(sh, cbs) ==
    IF cbs = <<>> THEN sh
    ELSE LET value(k, old) ==
                IF \E i \in 1..Len(cbs) : cbs[i].k = k
                THEN cbs[CHOOSE i \in 1..Len(cbs) : cbs[i].k = k].value
                ELSE old
         IN  [progress_bar |-> value("progress_bar", sh.progress_bar),
              disk_usage |-> value("disk_usage_bar", sh.disk_usage),
              copied |-> cbs[CHOOSE i \in 1..Len(cbs) : cbs[i].k = "total_written"].copied,
              elapsed |-> cbs[CHOOSE i \in 1..Len(cbs) : cbs[i].k = "progress_details"].elapsed,
              eta |-> value("eta", sh.eta)]

ProgressIdle ==
    /\ pm_total_size = 0
    /\ pm_output = <<>>
    /\ pm_last_bytes = 0
    /\ self_last_dd_speed = 0
    /\ pm_parsed = NothingParsed
    /\ pm_posted = <<>>
    /\ pm_shown = NothingShown
    /\ pm_reading = FALSE
    /\ pm_pass = "none"
    /\ pm_nlines = 0

\* _monitor_wipe_progress is entered with the size of the device.
ProgressInit ==
    /\ pm_total_size \in TotalSizes
    /\ pm_output = <<>>
    /\ pm_last_bytes = 0
    /\ self_last_dd_speed = 0
    /\ pm_parsed = NothingParsed
    /\ pm_posted = <<>>
    /\ pm_shown = NothingShown
    /\ pm_reading = TRUE
    /\ pm_pass = "none"
    /\ pm_nlines = 0

\* A pass of the loop reads a line.
MonitorReadLine ==
    /\ pm_reading
    /\ pm_nlines < MaxProgressLines
    /\ \E line \in StatusLines \cup OtherLines :
         \E r \in {monitor_line(line, pm_total_size, pm_last_bytes, self_last_dd_speed)} :
             /\ pm_output' = line
             /\ pm_parsed' = r.parsed
             /\ pm_posted' = r.posted
             /\ pm_shown' = Show(pm_shown, r.posted)
             /\ pm_last_bytes' = r.last_bytes
             /\ self_last_dd_speed' = r.last_dd_speed
             /\ pm_reading' = r.running
    /\ pm_pass' = "line"
    /\ pm_nlines' = pm_nlines + 1
    /\ UNCHANGED pm_total_size

\* A pass of the loop raises in readline: except Exception: break.
MonitorReadRaises ==
    /\ pm_reading
    /\ pm_nlines < MaxProgressLines
    /\ pm_reading' = FALSE
    /\ pm_pass' = "raised"
    /\ pm_nlines' = pm_nlines + 1
    /\ pm_posted' = <<>>
    /\ UNCHANGED <<pm_total_size, pm_output, pm_last_bytes, self_last_dd_speed, pm_parsed, pm_shown>>

ProgressNext == MonitorReadLine \/ MonitorReadRaises

\* ------------------------------------------------------------------------
\* The utilization history over many samples (gui.py)
\* ------------------------------------------------------------------------
\* Samples handed to _update_utilization in one run of the model.
MaxTicks == 62

\* A USB device as a scan lists it.
UsbStick == [path |-> S_dev \o <<"s", "d", "b">>, classification |-> "USB"]

\* SecureWipeGUI._update_utilization on the next sample; the samples are
\* numbered so that their order shows in the history.
UtilUpdate ==
    /\ util_tick < MaxTicks
    /\ util_tick' = util_tick + 1
    /\ util_since' = util_since + 1
    /\ util_history' = DequeAppend(util_history, util_tick + 1)
    /\ UNCHANGED <<is_wiping, current_device, wipe_process, ui, widgets,
                   devices_cache, uiMode, afterQ, nsessions, wpc, wdev, wsize, procs,
                   mpc, mdev, msamples, scanning, reported, nclicks, clVars, apiVars, progVars, envVars, obsVars>>

\* SecureWipeGUI._start_wipe: a session starts and clears the history.
UtilSessionStart ==
    /\ start_wipe(UsbStick)
    /\ util_since' = 0
    /\ UNCHANGED <<wipe_process, widgets, devices_cache, uiMode, afterQ, wsize, procs,
                   mdev, msamples, scanning, reported, nclicks, util_tick, clVars, apiVars, progVars, envVars, obsVars>>

UtilNext == UtilUpdate \/ UtilSessionStart

\* ------------------------------------------------------------------------
\* Specifications
\* ------------------------------------------------------------------------
Init == GuiInit /\ ClassifyIdle /\ ApiInit /\ UtilInit /\ ProgressIdle /\ EnvInit /\ ObsInit

WipeThread ==
    \E h \in Sessions :
       \/ WipeThreadPopen(h)
       \/ WipeThreadPopenFails(h)
       \/ WipeThreadReadLine(h)
       \/ WipeThreadReadRaises(h)
       \/ WipeThreadSeesExit(h)
       \/ WipeThreadAfterLoop(h)

Sampler == \E h \in Sessions : SamplerBegin(h) \/ SamplerCheck(h) \/ SamplerIostat(h)

Process == \E h \in Sessions : ProcessExits(h) \/ ProcessKilled(h)

Next ==
    \/ ClickScan
    \/ ClickRefresh
    \/ ScanThread
    \/ ClickWipe
    \/ AnswerQuestion
    \/ ConfirmWipeReturn
    \/ WipeThread
    \/ Sampler
    \/ Process
    \/ ClickCancel
    \/ CancelWipeReturn
    \/ CancelGraceEnd
    \/ ClickClose
    \/ RunStatus
    \/ RunProgress
    \/ RunWipeCompleted
    \/ RunWipeCancelled
    \/ RunWipeError
    \/ RunDisplay
    \/ RunScanFailed
    \/ RunUtil

Spec == Init /\ [][Next]_vars

\* The classifiers and the command selectors on every input of the input sets.
InitClassify == GuiInit /\ ClassifyInit /\ ApiInit /\ UtilInit /\ ProgressIdle /\ EnvIdle /\ ObsInit

NextClassify == ClassifyNext /\ UNCHANGED <<guiVars, apiVars, utilVars, progVars, envVars, obsVars>>

SpecClassify == InitClassify /\ [][NextClassify]_vars

\* Calls on one SecureWipeAPI object, in any order, on every inventory of
\* the input set.
InitApi == GuiInit /\ ClassifyIdle /\ ApiInit /\ UtilInit /\ ProgressIdle /\ EnvIdle /\ ObsInit

NextApi == ApiNext /\ UNCHANGED <<guiVars, clVars, utilVars, progVars, envVars, obsVars>>

SpecApi == InitApi /\ [][NextApi]_vars

\* The utilization history under any number of samples and session starts.
InitUtil == GuiInit /\ ClassifyIdle /\ ApiInit /\ UtilInit /\ ProgressIdle /\ EnvIdle /\ ObsInit

SpecUtil == InitUtil /\ [][UtilNext]_vars

\* The progress monitor on every sequence of lines of the input set.
InitProgress == GuiInit /\ ClassifyIdle /\ ApiInit /\ UtilInit /\ ProgressInit /\ EnvIdle /\ ObsInit

NextProgress == ProgressNext /\ UNCHANGED <<guiVars, clVars, apiVars, utilVars, envVars, obsVars>>

SpecProgress == InitProgress /\ [][NextProgress]_vars

\* Sessions and their cancellation in a window that shows the devices of
\* a scan: the state after construction, a press of "Scan Devices" and the
\* display of what the scan found; from there the user starts, cancels and
\* closes sessions and scans no more. The host has no iostat, so no sample
\* is ever handed to the Tk thread.
MaxCancelClicks == 4

\* What the host of this specification holds: one USB stick and one
\* internal disk.
CancelInventory ==
    Inventory("ok",
      << Probe(InRecord(<<"s", "d", "b">>, PyStr(S_usb), PyStr(S_disk), PyBool(FALSE)),
               SmartOut(FALSE, FALSE, FALSE, FALSE)),
         Probe(InRecord(<<"s", "d", "a">>, PyStr(<<"s", "a", "t", "a">>), PyStr(S_disk), PyBool(TRUE)),
               SmartOut(FALSE, FALSE, FALSE, FALSE)) >>)

GuiScanned ==
    /\ SessionInit
    /\ \E inv \in {CancelInventory} :
          \E r \in {scan_devices(inv, <<>>)} :
             /\ ~r.raised
             /\ r.val.success
             /\ widgets = [i \in 1..Len(r.val.devices) |->
                             create_device_widget(device_to_dict(r.val.devices[i]))]
             /\ devices_cache = r.val.cache
    /\ nclicks = MaxCancelClicks

InitCancel == GuiScanned /\ ClassifyIdle /\ ApiInit /\ UtilInit /\ ProgressIdle /\ iostat_installed = FALSE /\ ObsInit

NextCancel ==
    \/ ClickWipe
    \/ AnswerQuestion
    \/ ConfirmWipeReturn
    \/ WipeThread
    \/ Sampler
    \/ Process
    \/ ClickCancel
    \/ CancelWipeReturn
    \/ CancelGraceEnd
    \/ ClickClose
    \/ RunStatus
    \/ RunProgress
    \/ RunWipeCompleted
    \/ RunWipeCancelled
    \/ RunWipeError

SpecCancel == InitCancel /\ [][NextCancel]_vars

\* ------------------------------------------------------------------------
\* Properties of the classifiers and the command selectors (SpecClassify)
\* ------------------------------------------------------------------------
NoneExecutable(cmds) == \A i \in 1..Len(cmds) : ~IsExecutable(cmds[i])

\* The record's transport is "usb" in some letter case.
TransportIsUsb(rawdev) ==
    /\ "tran" \in DOMAIN rawdev
    /\ rawdev["tran"].t = "str"
    /\ rawdev["tran"].s \in UsbSpellings

\* C4: for every device path, both command selectors answer UNKNOWN, and
\* any classification value they do not know, with placeholder strings
\* only: none of the strings returned is an executable command. The same
\* holds for the commands a device classified UNKNOWN carries.
C4_UnknownGetsPlaceholders ==
    /\ (cpc = "done" /\ sel_type \notin (DeviceTypes \ {"UNKNOWN"}))
          => /\ sel_core # <<>> /\ NoneExecutable(sel_core)
             /\ sel_py # <<>> /\ NoneExecutable(sel_py)
    /\ (cpc # "core" /\ ~core_out.raised /\ core_out.val.classification = "UNKNOWN")
          => NoneExecutable(core_out.val.wipe_commands)

\* C4 witness: the selectors have answered UNKNOWN for an NVMe-named path.
C4_Witness ==
    /\ cpc = "done"
    /\ sel_type = "UNKNOWN"
    /\ raw["name"].s = <<"n", "v", "m", "e", "0", "n", "1">>
    /\ Len(sel_core) = 2
    /\ Len(sel_py) = 1

\* C9: a record whose transport is "usb" in any letter case is classified
\* USB by both classifiers, whatever its name, type, rotational flag and
\* identity-query answer are, and no identity query is issued for it.
C9_UsbTransportIsUsb ==
    TransportIsUsb(raw) =>
       /\ cpc \in {"py", "sel", "done"} =>
             /\ ~core_out.raised
             /\ core_out.val.classification = "USB"
             /\ ~core_out.val.queried
       /\ cpc \in {"sel", "done"} =>
             /\ ~py_out.raised
             /\ py_out.val.type = "USB"
             /\ ~py_out.val.queried

\* C9 witness: an NVMe-named disk attached over "USB" (upper case) has
\* been classified USB by both classifiers.
C9_Witness ==
    /\ cpc = "done"
    /\ raw["name"].s = <<"n", "v", "m", "e", "0", "n", "1">>
    /\ "tran" \in DOMAIN raw /\ raw["tran"] = PyStr(<<"U", "S", "B">>)
    /\ ~core_out.raised /\ core_out.val.classification = "USB"
    /\ ~py_out.raised /\ py_out.val.type = "USB"

\* C10: a record whose name starts with "nvme" and whose transport is not
\* usb (also a transport that is missing or present with no value) is
\* classified NVME by both classifiers, and neither classification raises.
C10_NvmeNameIsNvme ==
    (/\ cpc = "done"
     /\ StartsWith(raw["name"].s, S_nvme)
     /\ ~TransportIsUsb(raw))
       => /\ ~core_out.raised /\ core_out.val.classification = "NVME"
          /\ ~py_out.raised /\ py_out.val.type = "NVME"

\* The record's transport is a string, or the record holds none.
TransportIsText(rawdev) == "tran" \in DOMAIN rawdev => rawdev["tran"].t = "str"

\* The record is of type disk, and is neither USB nor NVMe.
PlainDisk(rawdev) ==
    /\ "type" \in DOMAIN rawdev /\ rawdev["type"] = PyStr(S_disk)
    /\ ~TransportIsUsb(rawdev)
    /\ ~StartsWith(rawdev["name"].s, S_nvme)

\* The rotational flag of the record is true: lsblk prints it as the JSON
\* value true, older versions as the string "1"; false is false or "0".
RotaIsTrue(rawdev) ==
    /\ "rota" \in DOMAIN rawdev
    /\ rawdev["rota"] \in {PyBool(TRUE), PyStr(<<"1">>)}

\* The identity query succeeded: no error and no "Unavailable" marker.
QuerySucceeded(out) == ~out.startsError /\ ~out.hasError /\ ~out.hasUnavail

\* What the cascade prescribes for a plain disk whose query succeeded.
CascadeType(rawdev, out) ==
    IF out.hasSSD THEN "SATA SSD"
    ELSE IF RotaIsTrue(rawdev) THEN "HDD"
    ELSE "UNKNOWN"

\* C11: a disk that is neither USB nor NVMe and whose identity query
\* succeeds is SATA SSD when the answer has the solid-state marker, else
\* HDD when its rotational flag is true, else UNKNOWN; a device that is not
\* USB, not NVMe and not of type disk is UNKNOWN.
C11_DiskCascade ==
    (/\ cpc = "done"
     /\ TransportIsText(raw)
     /\ ~TransportIsUsb(raw)
     /\ ~StartsWith(raw["name"].s, S_nvme))
       => IF PlainDisk(raw)
          THEN QuerySucceeded(smart) =>
                  /\ ~core_out.raised
                  /\ core_out.val.classification = CascadeType(raw, smart)
                  /\ ~py_out.raised
                  /\ py_out.val.type = CascadeType(raw, smart)
          ELSE /\ ~core_out.raised /\ core_out.val.classification = "UNKNOWN"
               /\ ~py_out.raised /\ py_out.val.type = "UNKNOWN"

\* The last entry of an evidence list has this text.
LastEvidenceIs(evidence, text) ==
    evidence # <<>> /\ evidence[Len(evidence)].text = text

\* C12: for a disk that is neither USB nor NVMe, when the identity query
\* fails or its answer carries the "Unavailable" marker, the classification
\* is UNKNOWN with an unreliable-data evidence entry, whatever the
\* rotational flag is and whether or not the answer has the solid-state
\* marker.
C12_UnreliableQueryIsUnknown ==
    (/\ cpc = "done"
     /\ TransportIsText(raw)
     /\ PlainDisk(raw)
     /\ smart.startsError \/ smart.hasUnavail)
       => /\ ~core_out.raised
          /\ core_out.val.classification = "UNKNOWN"
          /\ LastEvidenceIs(core_out.val.evidence, "SMART: Data unavailable")
          /\ ~py_out.raised
          /\ py_out.val.type = "UNKNOWN"
          /\ LastEvidenceIs(py_out.val.evidence,
                            "[smartctl] Result: Could not get reliable SMART data.")

\* ------------------------------------------------------------------------
\* Properties of the programming interface (SpecApi)
\* ------------------------------------------------------------------------
\* The latest scan found at least one device and classified one of them ty.
ScanFound(ret, ty) ==
    /\ ~ret.raised /\ "pending" \notin DOMAIN ret
    /\ ret.val.success
    /\ \E i \in 1..Len(ret.val.devices) : ret.val.devices[i].classification = ty

\* C13: classification is deterministic. A scan classifies every record of
\* the inventory; when two scans in a row meet the same records with the
\* same identity-query answers they return the same devices
\* (classification, evidence entries in their order, command list), and
\* what any scan returns is what a fresh core object returns for the same
\* inventory, whatever the earlier calls left in the object.
C13_ClassificationDeterministic ==
    /\ scan_inv = prev_inv => scan_ret = prev_ret
    /\ scan_inv # NoInventory => scan_ret = api_scan(scan_devices(scan_inv, <<>>))

\* C13 witness: the same inventory with a SATA disk was scanned twice in a
\* row on one object, and the disk was classified by the identity query.
C13_Witness ==
    /\ scan_inv = prev_inv
    /\ scan_inv # NoInventory
    /\ ScanFound(prev_ret, "HDD")
    /\ ScanFound(scan_ret, "HDD")
    /\ core_devices_cache # <<>>

\* A record with every column of the inventory query present and not null.
RecordComplete(rawdev) ==
    \A f \in {"name", "tran", "rota", "type"} : f \in DOMAIN rawdev /\ rawdev[f] # PyNone

\* The inventory is not of the expected form: the query failed, its output
\* is not JSON or has no device list, or a record misses a field or holds
\* null for it.
Malformed(inv) ==
    \/ inv.lsblk \in {"error", "badjson", "nokey"}
    \/ \E i \in 1..Len(inv.devs) : ~RecordComplete(inv.devs[i].raw)

\* C14: a scan never raises to its caller, and on an inventory that is not
\* of the expected form it returns failure with a message and no devices.
C14_MalformedInventoryFails ==
    scan_inv # NoInventory =>
       /\ ~scan_ret.raised
       /\ Malformed(scan_inv) =>
             /\ ~scan_ret.val.success
             /\ scan_ret.val.message # ""
             /\ scan_ret.val.devices = <<>>

\* C15: the cache is the device list of the latest successful scan (empty
\* before any), and get_device answers from it: a device of that list with
\* the path asked for, or None when the list has none.
C15_CacheIsLatestSuccessfulScan ==
    /\ core_devices_cache = last_good
    /\ last_call = "get_device" =>
          LET hits == { i \in 1..Len(last_good) : last_good[i].path = get_path }
          IN  IF hits = {} THEN get_ret = PyNone
              ELSE \E i \in hits : get_ret = device_to_dict(last_good[i])

\* C15 witness: a scan succeeded with devices, the next scan did not
\* succeed, and get_device then returned a device of the first.
C15_Witness ==
    /\ last_call = "get_device"
    /\ get_ret # PyNone
    /\ ScanFound(prev_ret, "USB")
    /\ scan_ret.raised \/ ~scan_ret.val.success
    /\ last_good # <<>>

\* ------------------------------------------------------------------------
\* Properties of the utilization history (SpecUtil)
\* ------------------------------------------------------------------------
\* C16: after any sequence of samples and session starts the history holds
\* at most 60 entries, and they are the latest samples since the last
\* session start, oldest first: the append to a full history has dropped
\* the oldest entry, kept the other 59 in their order and put the new one
\* last.
C16_HistoryKeepsLatest60 ==
    /\ Len(util_history) <= util_maxlen
    /\ Len(util_history) = IF util_since < util_maxlen THEN util_since ELSE util_maxlen
    /\ \A i \in 1..Len(util_history) :
          util_history[i] = util_tick - Len(util_history) + i

\* C16 witness: a session started, and a sample was appended to the full
\* history of that session.
C16_Witness ==
    /\ nsessions > 0
    /\ util_since > util_maxlen
    /\ Len(util_history) = util_maxlen
    /\ util_history[util_maxlen] = util_tick

\* ------------------------------------------------------------------------
\* Properties of the progress monitor (SpecProgress)
\* ------------------------------------------------------------------------
\* The rate S <unit> in MB/s, in the unit of self_last_dd_speed.
NormalizedRate(s, unit) ==
    CASE unit = W_MBps -> s * 1024
      [] unit = W_GBps -> s * 1024 * 1024
      [] unit = W_KBps -> s

\* C17: from a status line "<N> bytes (<X> <unit>) copied, <T> s, <S>
\* <unit>/s" the monitor takes the bytes copied N, the seconds T and the
\* rate in MB/s (S, S x 1024 for GB/s, S / 1024 for KB/s); from "104857600
\* bytes (105 MB) copied, 2.0 s, 52.4 MB/s" of 1073741824 bytes it takes
\* 9.77 percent (to a hundredth) and 52.4 MB/s.
C17_StatusLineParsed ==
    \A n \in LineBytes, t \in LineTenths, r \in LineRates :
       (pm_pass = "line" /\ pm_output = DdLine(n, t, r[1], r[2])) =>
          /\ pm_parsed.matched
          /\ pm_parsed.bytes_copied = n
          /\ pm_parsed.time_elapsed = t
          /\ self_last_dd_speed = NormalizedRate(r[1], r[2])
          /\ (n = 104857600 /\ pm_total_size = 1073741824) => pm_shown.progress_bar \in {976, 977}

\* The percent values the latest pass published.
PublishedPercents ==
    { pm_posted[i].value : i \in { j \in 1..Len(pm_posted) :
          pm_posted[j].k \in {"progress_bar", "disk_usage_bar", "disk_usage_label"} } }

\* C18: a published percent is bytes_copied / bytes_total x 100 held
\* within 0 and 100, also when bytes_copied is more than bytes_total; no
\* percent is published when the total is 0.
C18_PercentClamped ==
    /\ pm_total_size = 0 => PublishedPercents = {}
    /\ \A v \in PublishedPercents :
          /\ v >= 0 /\ v <= 10000
          /\ LET exact == progress_percent(pm_parsed.bytes_copied, pm_total_size)
             IN  v = IF exact > 10000 THEN 10000 ELSE exact

\* C19: a pass that reads a line which is no status line changes nothing
\* that is shown or kept (bytes, percent, rate, ETA), schedules nothing and
\* leaves the loop running; and every status line is parsed, whatever lines
\* were read before it.
C19_OtherLinesIgnored ==
    /\ [][ (pm_nlines' = pm_nlines + 1 /\ pm_pass' = "line" /\ pm_output' \in OtherLines) =>
              /\ ~pm_parsed'.matched
              /\ pm_posted' = <<>>
              /\ pm_shown' = pm_shown
              /\ pm_last_bytes' = pm_last_bytes
              /\ self_last_dd_speed' = self_last_dd_speed
              /\ pm_reading' = pm_reading ]_vars
    /\ [](pm_pass = "line" /\ pm_output \in StatusLines =>
              /\ pm_parsed.matched
              /\ \E n \in LineBytes : pm_output[1] = ToDigits(n) /\ pm_parsed.bytes_copied = n)

\* C19 witness: after a status line was parsed, a line that is none was
\* read; the values of the status line are still shown and the loop runs.
C19_Witness ==
    /\ pm_nlines = 2
    /\ pm_pass = "line"
    /\ pm_output \in OtherLines /\ pm_output # <<>>
    /\ pm_shown.copied > 0
    /\ pm_last_bytes > 0
    /\ pm_reading

\* ------------------------------------------------------------------------
\* Properties of the wipe session (Spec)
\* ------------------------------------------------------------------------
\* The child of session h has exited with this status.
ExitedWith(h, status) == procs[h].state = "exited" /\ procs[h].status = status

\* The user confirmed the cancellation of session h while its child ran:
\* the termination signal was sent to it.
CancelConfirmed(h) == procs[h].term

\* A terminal handler has run for session h.
Settled(h) == reported[h] # <<>>

\* C1: when the user confirms the cancellation while the child of the
\* session runs and the child is ended by the signal, the outcome the
\* session reports is Cancelled, not Failed and not Completed.
C1_CancelReportsCancelled ==
    \A h \in Sessions :
       (/\ CancelConfirmed(h)
        /\ ExitedWith(h, RcSigTerm) \/ ExitedWith(h, RcSigKill)
        /\ Settled(h))
          => reported[h] = <<"Cancelled">>

\* C2: no second destructive process is launched while the first one is
\* still active: at most one child process runs at any time.
C2_OneProcessAtATime ==
    Cardinality({h \in Sessions : procs[h].state = "running"}) <= 1

\* C3: a session starts only on the answer yes to the question asked for
\* that device, and only for a device whose classification is not UNKNOWN;
\* the thread keeps that device until it launches; a child is launched only
\* by the thread of a started session, for its device; the answer no
\* starts nothing and leaves the session state as it was.
C3_LaunchOnlyConfirmedKnown ==
    [][ /\ \A h \in Sessions :
             /\ (wpc[h] = "none" /\ wpc'[h] # "none")
                   => /\ uiMode.kind = "confirm_wipe"
                      /\ uiMode.result = "yes"
                      /\ wdev'[h] = uiMode.device
                      /\ uiMode.device.classification # "UNKNOWN"
             /\ (wpc[h] = "start" /\ wpc'[h] = "start") => wdev'[h] = wdev[h]
             /\ (procs[h].state = "none" /\ procs'[h].state # "none")
                   => /\ wpc[h] = "start"
                      /\ wdev[h].classification # "UNKNOWN"
        /\ (uiMode.kind = "confirm_wipe" /\ uiMode.result = "no" /\ uiMode' = Idle)
              => UNCHANGED <<is_wiping, current_device, wipe_process, nsessions, wpc,
                             wdev, procs, ui, util_history, reported>>
      ]_vars

\* C3 witness: a child runs for a confirmed USB device while the list
\* also shows a device classified UNKNOWN, which has no wipe button.
C3_Witness ==
    /\ \E h \in Sessions :
          /\ procs[h].state = "running"
          /\ wdev[h].classification = "USB"
    /\ \E i \in 1..Len(widgets) :
          /\ widgets[i].device.classification = "UNKNOWN"
          /\ ~widgets[i].wipe_btn

\* C5: in no reachable state is a scan in progress while a wipe session is
\* active.
C5_NoScanDuringWipe == ~(is_wiping /\ scanning > 0)

\* The launch of session h failed: its thread has returned without a child.
LaunchFailed(h) == wpc[h] = "done" /\ procs[h].state = "none"

\* No callback scheduled for session h waits in the queue.
NothingPendingFor(h) ==
    \A i \in 1..Len(afterQ) : "h" \in DOMAIN afterQ[i] => afterQ[i].h # h

\* C6: when the launch of the destructive command fails, the session
\* reaches Failed with a diagnostic message: once the callback the thread
\* scheduled has run, Failed has been reported.
C6_LaunchFailureReportsFailed ==
    \A h \in Sessions :
       (LaunchFailed(h) /\ NothingPendingFor(h)) => reported[h] = <<"Failed">>

\* C7: when the child exits with a non-zero status that no cancellation
\* caused, the outcome the session reports is Failed.
C7_FailureExitReportsFailed ==
    \A h \in Sessions :
       (/\ ExitedWith(h, RcFailure)
        /\ ~procs[h].term /\ ~procs[h].kill
        /\ Settled(h))
          => reported[h] = <<"Failed">>

\* C8: when the child exits with success status, the outcome the session
\* reports is Completed, and the bar of that session shows 100.
C8_SuccessExitReportsCompleted ==
    \A h \in Sessions :
       (ExitedWith(h, 0) /\ Settled(h))
          => /\ reported[h] = <<"Completed">>
             /\ nsessions = h => ui.progress_bar = 100


\* The callbacks in the queue that hand a sample to _update_utilization.
UtilPending == { i \in 1..Len(afterQ) : afterQ[i].k = "util" }

\* C20: on a host without iostat no sample is ever taken or appended, the
\* sampler of a session stops at its first call of iostat and stays
\* stopped, and the step that stops it changes nothing of the session (the
\* process runs on, the wipe thread, the queue and the window are as they
\* were). On a host with iostat no outcome of a call stops the sampler: it
\* goes back to the head of its loop.
C20_SamplerStopsAlone ==
    /\ [](~iostat_installed => util_history = <<>> /\ UtilPending = {})
    /\ [][ \A h \in Sessions :
             /\ (mpc[h] = "iostat" /\ mpc'[h] # "iostat") =>
                   IF iostat_installed
                   THEN mpc'[h] = "check"
                   ELSE /\ mpc'[h] = "done"
                        /\ UNCHANGED <<is_wiping, current_device, wipe_process, util_history,
                                       ui, uiMode, afterQ, procs, wpc, wdev, wsize, reported>>
             /\ mpc[h] = "done" => mpc'[h] = "done" ]_vars

\* C20 witness: on a host without iostat the sampler of a session has
\* stopped while the session's dd is running and its wipe thread is reading.
C20_Witness ==
    /\ ~iostat_installed
    /\ \E h \in Sessions :
          /\ mpc[h] = "done"
          /\ is_wiping
          /\ wipe_process = h
          /\ procs[h].state = "running"
          /\ wpc[h] = "loop"


\* The session in progress: the one _start_wipe started last.
CurrentSession == nsessions

\* The session in progress is Running: _start_wipe has started it, Popen
\* has returned its child, and no terminal handler has run for it.
SessionRunning ==
    /\ nsessions > 0
    /\ is_wiping
    /\ procs[CurrentSession].state # "none"
    /\ ~Settled(CurrentSession)

\* _update_utilization has appended a sample in this step.
SampleAppended ==
    /\ afterQ # <<>>
    /\ Head(afterQ).k = "util"
    /\ util_history' = DequeAppend(util_history, Head(afterQ).u)

\* C21: a utilization sample is appended to the history only while the
\* session is Running: never while it is Idle or Starting, never after a
\* terminal outcome was reported.
C21_SamplesOnlyWhileRunning ==
    [][ SampleAppended => SessionRunning ]_vars


\* No child process runs.
NoProcessRunning == \A h \in Sessions : procs[h].state # "running"

\* Nothing that was sent to a process or that a process did has changed.
ProcessesUntouched ==
    \A h \in Sessions :
       /\ procs'[h].state = procs[h].state
       /\ procs'[h].status = procs[h].status
       /\ procs'[h].term = procs[h].term
       /\ procs'[h].kill = procs[h].kill

\* C22: a press of the cancel button while no child process runs (none was
\* launched yet, or the launched one has exited) sends no signal, asks
\* nothing and leaves the session, its threads, the queue and the reported
\* outcomes as they were; after a terminal outcome the button closes the
\* progress frame and changes nothing of the session either.
C22_CancelWithoutProcessIsNoOp ==
    [][ /\ (ClickCancel /\ NoProcessRunning)
           => /\ ProcessesUntouched
              /\ UNCHANGED <<is_wiping, current_device, wipe_process, nsessions, ui, uiMode,
                             afterQ, util_history, reported, wpc, mpc>>
        /\ ClickClose
           => /\ ProcessesUntouched
              /\ UNCHANGED <<is_wiping, current_device, wipe_process, nsessions, uiMode,
                             afterQ, util_history, reported, wpc, mpc>>
      ]_vars

\* C22 witness: the cancel button was pressed after the child of the
\* session had exited and before its outcome was reported; the press was
\* ignored, the session is still active and no signal was sent.
C22_Witness ==
    /\ cancel_ignored = "exited"
    /\ nsessions = 1
    /\ is_wiping
    /\ wipe_process = 1
    /\ procs[1].state = "exited"
    /\ ~procs[1].term /\ ~procs[1].kill
    /\ uiMode = Idle
    /\ ~Settled(1)


\* C23: within one run of the progress monitor the bytes copied it
\* publishes never go down from one update to the next, whatever status
\* lines the child writes.
C23_BytesNeverDecrease ==
    [][ pm_shown'.copied >= pm_shown.copied ]_vars


\* The wipe threads that have been started and have not returned.
LiveWipeThreads == { h \in Sessions : wpc[h] \in {"start", "loop", "after_loop"} }

\* A step taken by a thread other than the Tk thread, or by a child process.
WorkerStep == WipeThread \/ Sampler \/ ScanThread \/ Process

\* C24: every write of the session data the threads share is applied by
\* one writer at a time: the active flag, the device of the session, the
\* utilization history and what the window shows (bytes copied, percent,
\* status) are written in steps of the Tk thread only, the updates of the
\* reader and of the sampler reaching them through the callback queue; the
\* process handle is written by the wipe thread of the session in progress
\* only; and at most one wipe thread, the only writer of the handle and of
\* the throughput, is alive at any time.
C24_SingleWriter ==
    /\ [](Cardinality(LiveWipeThreads) <= 1)
    /\ [][ /\ (\/ is_wiping' # is_wiping
               \/ current_device' # current_device
               \/ util_history' # util_history
               \/ ui' # ui
               \/ reported' # reported) => ~WorkerStep
           /\ wipe_process' # wipe_process
                 => /\ LiveWipeThreads = {wipe_process'}
                    /\ WipeThreadPopen(wipe_process') ]_vars

\* C24 witness: while the wipe thread reads and the sampler samples, an
\* update of each has been applied by the Tk thread.
C24_Witness ==
    \E h \in Sessions :
       /\ wpc[h] = "loop"
       /\ mpc[h] \in {"check", "iostat"}
       /\ is_wiping
       /\ wipe_process = h
       /\ procs[h].state = "running"
       /\ util_history # <<>>
       /\ ui.progress_status = "Wiped"


\* The signals sent to the child of session h in this step.
TermSent(h) == procs'[h].term /\ ~procs[h].term
KillSent(h) == procs'[h].kill /\ ~procs[h].kill

\* C25: cancellation keeps its order: the termination signal is sent on
\* the answer yes and is followed by the grace period; the kill signal is
\* sent only at the end of the grace period, only to a child that is still
\* running then and that was sent the termination signal before, and a
\* child still running at the end of its grace period is sent it; a child
\* that has exited is sent nothing.
C25_TwoPhaseCancel ==
    [][ /\ \A h \in Sessions :
             /\ TermSent(h) => /\ uiMode.kind = "confirm_cancel"
                               /\ uiMode.result = "yes"
                               /\ uiMode'.kind = "grace"
                               /\ procs[h].state = "running"
                               /\ ~KillSent(h)
             /\ KillSent(h) => /\ uiMode.kind = "grace"
                               /\ uiMode' = Idle
                               /\ procs[h].state = "running"
                               /\ procs[h].term
        /\ (uiMode.kind = "grace" /\ uiMode' = Idle)
              => \A h \in Sessions :
                    (procs[h].term /\ procs[h].state = "running") => procs'[h].kill
      ]_vars


\* The ETA values the latest pass published.
PublishedEta ==
    { pm_posted[i].value : i \in { j \in 1..Len(pm_posted) : pm_posted[j].k = "eta" } }

\* C26: an ETA in seconds is published only from a line with bytes copied
\* and elapsed time above 0 (a throughput above 0), it is the bytes that
\* remain divided by the bytes per second, and it is never negative, also
\* when the total is unknown (0) or less than the bytes copied; otherwise
\* "calculating" is published.
C26_EtaNeverNegative ==
    \A e \in PublishedEta :
       e.kind = "seconds" =>
          /\ pm_parsed.bytes_copied > 0
          /\ pm_parsed.time_elapsed > 0
          /\ e.tenths >= 0
          /\ pm_total_size >= pm_parsed.bytes_copied =>
                e.tenths = ScaledRatio(pm_total_size - pm_parsed.bytes_copied,
                                       pm_parsed.time_elapsed, pm_parsed.bytes_copied)


\* C27: in every session that reaches Running, a second one included, the
\* sampler started for it is alive for as long as the session's own child
\* runs (where iostat exists): the handle of an earlier session's exited
\* child does not stop it; and every sample appended to the history was
\* taken by the sampler of the session in progress, of that session's
\* device.
C27_SamplerFollowsOwnSession ==
    /\ [](\A h \in Sessions :
            (/\ iostat_installed
             /\ is_wiping
             /\ CurrentSession = h
             /\ procs[h].state = "running") => mpc[h] \in {"begin", "check", "iostat"})
    /\ [][ SampleAppended =>
              /\ Head(afterQ).of = CurrentSession
              /\ Head(afterQ).u.dev = LastComponent(current_device.path) ]_vars


\* C28: when a terminal handler reports the outcome of a session and
\* clears the active flag, the child of that session is not running: it
\* has exited, or it was never launched.
C28_TerminalOnlyAfterExit ==
    [][ /\ \A h \in Sessions :
             reported'[h] # reported[h] => procs[h].state # "running"
        /\ (is_wiping /\ ~is_wiping') => NoProcessRunning ]_vars


\* The wipe thread of session h has returned and no callback it scheduled
\* is still to run: nothing more will be reported for the session.
Finished(h) == wpc[h] = "done" /\ NothingPendingFor(h)

\* C29: no session reports two outcomes; and once the wipe thread of a
\* started session has returned (its child exited, or the launch failed)
\* and its callbacks have run, exactly one outcome has been reported for
\* the session and, until the next session starts, the active flag is
\* cleared, so that scans and wipes are accepted again.
C29_ExactlyOneOutcome ==
    \A h \in Sessions :
       /\ Len(reported[h]) <= 1
       /\ Finished(h) =>
             /\ Len(reported[h]) = 1
             /\ CurrentSession = h => ~is_wiping


\* C30: the command a wipe thread launches for its device is the first
\* command _get_wipe_commands lists for the device's classification and
\* path, and that entry is a command, not a comment.
C30_LaunchesSelectorsFirst ==
    [][ \A h \in Sessions :
          (procs[h].state = "none" /\ procs'[h].state # "none") =>
             LET listed == get_wipe_commands(wdev[h].classification, wdev[h].path)
             IN  /\ procs'[h].command = listed[1]
                 /\ IsExecutable(listed[1]) ]_vars

\* C30 witness: dd runs on a USB device of the list, launched by the wipe
\* thread that is now reading its output.
C30_Witness ==
    \E h \in Sessions :
       /\ procs[h].state = "running"
       /\ wpc[h] = "loop"
       /\ wdev[h].classification = "USB"
       /\ wdev[h].path # <<>>
       /\ procs[h].command.path = wdev[h].path
       /\ procs[h].command.pre[2] = "dd"

=============================================================================
